---- MODULE Spec2Model ----
(***************************************************************************)
(* The transaction page of localsafe.eth (TxDetailsClient): one pending    *)
(* Safe transaction is loaded from the pending set, signed by the          *)
(* connected owner, given signatures by hand, and broadcast.               *)
(***************************************************************************)
EXTENDS Integers, Sequences, FiniteSets, TLC

\* Number of owners of the Safe under view; one further account is no owner.
NumOwners == 2

Owners == 1..NumOwners
Outsider == NumOwners + 1
Accounts == 1..Outsider

\* Letter-case forms an address string can arrive in.
Forms == {"lower", "checksum"}

Null == [kind |-> "null"]

-----------------------------------------------------------------------------
(* Strings.  An address string is one of: empty, not matching the address  *)
(* pattern, or the 40 hex digits of account id written in some letter case.*)
(* A signature-data string is empty, not hex, or hex bytes from which      *)
(* signer recovery for the transaction digest yields account `by`          *)
(* (0: no account of the model).                                            *)

EmptyStr == [kind |-> "empty", id |-> 0, form |-> "lower"]
BadAddrStr == [kind |-> "malformed", id |-> 0, form |-> "lower"]
Addr(id, form) == [kind |-> "addr", id |-> id, form |-> form]
\* What is typed as signer address in the model: nothing, no address, the
\* first owner in lower case.
AddrInputs == {EmptyStr, BadAddrStr, Addr(1, "lower")}

EmptyData == [kind |-> "empty", by |-> 0]
BadDataStr == [kind |-> "malformed", by |-> 0]
Hex(by) == [kind |-> "hex", by |-> by]
\* What is typed as signature data in the model: nothing, no hex, the first
\* owner's signature, bytes that recover to no account.
DataInputs == {EmptyData, BadDataStr, Hex(1), Hex(0)}

\* What the dialog is submitted with: any of the above, or the address of the
\* account that is no owner with that account's own signature.
ManualInputs ==
    (AddrInputs \X DataInputs) \cup {<<Addr(Outsider, "checksum"), Hex(Outsider)>>}

toLowerCase_Identity(s) == s

toLowerCase(s) == [s EXCEPT !.form = "lower"]

\* signerAddress.match(/^0x[a-fA-F0-9]{40}$/)
MatchesAddress(s) == s.kind = "addr"

\* signatureData.match(/^0x[a-fA-F0-9]+$/)
MatchesHex(s) == s.kind = "hex"

\* The signer ecrecover yields for signature bytes over the transaction digest.
RecoveredSigner(d) == d.by

-----------------------------------------------------------------------------
(* The Safe, the chain and the transaction of the page's URL.              *)

SafeAddress == "0xSafe"
ChainId == 31337
StoreKey == <<SafeAddress, ChainId>>
ZeroAddress == "0x0000000000000000000000000000000000000000"

\* The transaction built in the sign-and-broadcast scenario.
BuiltTxData ==
    [to |-> "0x1111111111111111111111111111111111111111", value |-> 0,
     data |-> "0x", operation |-> 0, safeTxGas |-> 0, baseGas |-> 0,
     gasPrice |-> 0, gasToken |-> ZeroAddress, refundReceiver |-> ZeroAddress,
     nonce |-> 4]

\* kit.getTransactionHash(tx): a digest of the transaction data for this Safe
\* and chain, never of the signatures.
getTransactionHash(tx) == <<"safeTxHash", SafeAddress, ChainId, tx.data>>

\* The txHash parameter of the page's route.
txHash == getTransactionHash([data |-> BuiltTxData])

-----------------------------------------------------------------------------
(* Signatures: EthSafeSignature values in a Map keyed by the lower-cased   *)
(* signer, iterated in insertion order.                                    *)

EthSafeSignature(signer, data, isContract) ==
    [signer |-> signer, data |-> data, isContractSignature |-> isContract]

MapHas(m, k) == \E i \in 1..Len(m) : m[i].key = k

\* Map.set: an existing key keeps its place and takes the new value.
MapSet(m, k, v) ==
    IF MapHas(m, k)
    THEN [i \in 1..Len(m) |-> IF m[i].key = k THEN [key |-> k, sig |-> v] ELSE m[i]]
    ELSE Append(m, [key |-> k, sig |-> v])

\* EthSafeTransaction.addSignature
addSignature(sigs, sig) == MapSet(sigs, toLowerCase(sig.signer), sig)

-----------------------------------------------------------------------------
(* State.                                                                  *)

VARIABLES
    route,            \* "tx": the transaction page is mounted; "safe": the dashboard
    loading,          \* useState(true)
    safeTx,           \* useState<EthSafeTransaction | null>(null)
    signing,          \* useState(false)
    broadcasting,     \* useState(false)
    showModal,        \* useState(false)
    broadcastHash,    \* useState<string | null>(null)
    broadcastError,   \* useState<string | null>(null)
    toast,            \* useState<{type, message} | null>(null)
    showAddSigModal,  \* useState(false)
    connectedAddress, \* useAccount().address: the account id of the wallet
    safeInfo,         \* useSafe().safeInfo: null until read from the chain
    pendingTxs,       \* the persisted pending sets, by (safe address, chain id)
    signCall,         \* the signSafeTransaction call awaited by handleSign
    bcastCall,        \* the broadcastSafeTransaction call awaited by handleBroadcast
    sessIn,           \* per session computing hashes: what its pages are given
    sessOut,          \* per session computing hashes: eip712Data of its pages
    download,         \* the file the browser last downloaded from an export
    clipboard,        \* the share link last written to the clipboard
    peerTxs,          \* pending sets of the session that imports
    importResult,     \* what the last import reported
    importModal,      \* the import dialog: the transactions read from the chosen file
    intents,          \* the builder's list of calls to make
    multiSendAddress, \* the network setting "MultiSend Address"
    chainNonce,       \* the Safe's nonce on chain
    pendingRequest,   \* useWalletConnect().pendingRequest
    requestFromStorage, \* useState<any>(null): the request read from sessionStorage
    wcSignParams,     \* signParams, useState<any>(null)
    wcMethod,         \* method, useState<string>("")
    isProcessing,     \* useState(false)
    wcEip712Data,     \* eip712Data of the signing page, useState(null)
    wcSign,           \* handleSign of the signing page while it awaits
    wcReject,         \* handleReject while it awaits rejectRequest
    wcBack,           \* the "Back to Safe" handler while it awaits rejectRequest
    approveCalls,     \* calls of approveRequest so far, by request id
    rejectCalls,      \* calls of rejectRequest so far, by request id
    wcRoute,          \* where the signing session's router is
    wcAlert,          \* the last alert() shown by the signing page
    wcStorage,        \* sessionStorage "wc-pending-request"
    addressInput,     \* ConnectSafeClient: useState<string>("")
    ensResolution,    \* what useEnsAddress(addressInput) reports
    selectedChain,    \* useState<string>("")
    connectError,     \* error, useState<string | null>(null)
    connectLoading,   \* loading, useState(false)
    addressBook,      \* safeWalletData.data.addressBook
    connectCall,      \* handleAddSafe while it awaits connectNewSafe
    connectRoute      \* where the connecting session's router is

pageVars == <<loading, safeTx, signing, broadcasting, showModal, broadcastHash,
              broadcastError, toast, showAddSigModal>>
callVars == <<signCall, bcastCall>>
envVars == <<connectedAddress, safeInfo>>
appVars == <<route, pageVars, callVars, envVars, pendingTxs>>
hashVars == <<sessIn, sessOut>>
wireVars == <<download, clipboard, peerTxs, importResult, importModal>>
buildVars == <<intents, multiSendAddress, chainNonce>>
wcVars == <<pendingRequest, requestFromStorage, wcSignParams, wcMethod, isProcessing,
            wcEip712Data, wcSign, wcReject, wcBack, approveCalls, rejectCalls,
            wcRoute, wcAlert, wcStorage>>
connectVars == <<addressInput, ensResolution, selectedChain, connectError,
                 connectLoading, addressBook, connectCall, connectRoute>>
restVars == <<wcVars, connectVars>>
otherVars == <<hashVars, wireVars, buildVars, restVars>>
vars == <<appVars, otherVars>>

Toast(type, message) == [type |-> type, message |-> message]

\* The page's state right after mounting.
MountedState ==
    /\ loading = TRUE
    /\ safeTx = Null
    /\ signing = FALSE
    /\ broadcasting = FALSE
    /\ showModal = FALSE
    /\ broadcastHash = Null
    /\ broadcastError = Null
    /\ toast = Null
    /\ showAddSigModal = FALSE

\* The transaction page freshly opened on the built transaction.
PageInit ==
    /\ route = "tx"
    /\ MountedState
    /\ connectedAddress \in Accounts
    /\ safeInfo = Null
    /\ pendingTxs = [k \in {StoreKey} |-> <<[data |-> BuiltTxData, signatures |-> <<>>]>>]
    /\ signCall = Null
    /\ bcastCall = Null

\* No session computing hashes.
NoSessions ==
    /\ sessIn = <<>>
    /\ sessOut = <<>>

\* Nothing exported, nothing imported.
NoWire ==
    /\ download = Null
    /\ clipboard = Null
    /\ peerTxs = [k \in {StoreKey} |-> <<>>]
    /\ importResult = Null
    /\ importModal = Null

\* An empty builder on a network without MultiSend override, for a Safe that
\* has executed nothing.
NoBuild ==
    /\ intents = <<>>
    /\ multiSendAddress = ""
    /\ chainNonce = 0

\* No signing request on the WalletConnect page.
NoWc ==
    /\ pendingRequest = Null
    /\ requestFromStorage = Null
    /\ wcSignParams = Null
    /\ wcMethod = ""
    /\ isProcessing = FALSE
    /\ wcEip712Data = Null
    /\ wcSign = Null
    /\ wcReject = Null
    /\ wcBack = Null
    /\ approveCalls = <<>>
    /\ rejectCalls = <<>>
    /\ wcRoute = "safe"
    /\ wcAlert = Null
    /\ wcStorage = Null

\* The form for adding a Safe is not open.
NoConnect ==
    /\ addressInput = EmptyStr
    /\ ensResolution = Null
    /\ selectedChain = ""
    /\ connectError = Null
    /\ connectLoading = FALSE
    /\ addressBook = {}
    /\ connectCall = Null
    /\ connectRoute = "accounts"

NoRest ==
    /\ NoWc
    /\ NoConnect

Init ==
    /\ PageInit
    /\ NoSessions
    /\ NoWire
    /\ NoBuild
    /\ NoRest

-----------------------------------------------------------------------------
(* Collaborators of the page: the pending-set provider, the Safe hook.     *)

\* getAllTransactions(safeAddress, chainId): the stored transactions, as
\* EthSafeTransaction objects.
getAllTransactions(store, safeAddress, chainId) ==
    [i \in 1..Len(store[<<safeAddress, chainId>>]) |->
        [data |-> store[<<safeAddress, chainId>>][i].data,
         signatures |-> store[<<safeAddress, chainId>>][i].signatures,
         inst |-> TRUE]]

\* saveTransaction(safeAddress, tx, chainId): the stored transaction of the
\* same hash is replaced, a new one is appended.
saveTransaction(store, safeAddress, tx, chainId) ==
    LET key == <<safeAddress, chainId>>
        old == store[key]
        rec == [data |-> tx.data, signatures |-> tx.signatures]
        hit == {i \in 1..Len(old) : getTransactionHash(old[i]) = getTransactionHash(tx)}
    IN  [store EXCEPT ![key] =
            IF hit = {} THEN Append(old, rec)
            ELSE [i \in 1..Len(old) |-> IF i \in hit THEN rec ELSE old[i]]]

\* removeTransaction(safeAddress): the pending transactions kept for the Safe
\* are dropped.
removeTransaction(store, safeAddress) ==
    [k \in DOMAIN store |-> IF k[1] = safeAddress THEN <<>> ELSE store[k]]

\* useSafe().isOwner: the connected account is one of safeInfo.owners.
isOwner ==
    /\ safeInfo # Null
    /\ \E o \in safeInfo.owners : toLowerCase(o) = toLowerCase(Addr(connectedAddress, "checksum"))

\* The signature the wallet of account a produces for the transaction digest.
WalletSignature(a) == EthSafeSignature(Addr(a, "checksum"), Hex(a), FALSE)

\* signSafeTransaction(tx) resolving with a signed transaction: a copy of tx
\* carrying the signer's signature.
SignedCopy(tx, a) ==
    [data |-> tx.data, signatures |-> addSignature(tx.signatures, WalletSignature(a)),
     inst |-> TRUE]

-----------------------------------------------------------------------------
(* Derived values of a render.                                             *)

\* safeTx.signatures?.has(address.toLowerCase())
hasSigned(tx, address) == MapHas(tx.signatures, toLowerCase(address))

\* hasSignedThisTx
hasSignedThisTx ==
    IF safeTx # Null
    THEN hasSigned(safeTx, Addr(connectedAddress, "checksum"))
    ELSE FALSE

\* The transaction view (details and action buttons) is rendered.
TxViewShown == route = "tx" /\ ~loading /\ safeTx # Null

\* Variants of isExecutable that are off by one.
isExecutable_Strict(tx, info) ==
    tx # Null /\ info # Null /\ Len(tx.signatures) > info.threshold

isExecutable_Early(tx, info) ==
    tx # Null /\ info # Null /\ Len(tx.signatures) >= info.threshold - 1

\* safeTx && safeInfo && safeTx.signatures?.size >= safeInfo.threshold
isExecutable(tx, info) ==
    tx # Null /\ info # Null /\ Len(tx.signatures) >= info.threshold

SignBtnDisabled == ~isOwner \/ signing \/ hasSignedThisTx

BroadcastBtnDisabled == ~isExecutable(safeTx, safeInfo) \/ broadcasting

-----------------------------------------------------------------------------
(* Environment: the chain reader, the wallet, timers, navigation.          *)

\* useSafe reads the Safe's owners and threshold from the chain.
LoadSafeInfo ==
    /\ safeInfo = Null
    /\ \E t \in 1..NumOwners :
          safeInfo' = [owners |-> {Addr(i, "checksum") : i \in Owners}, threshold |-> t]
    /\ UNCHANGED <<route, pageVars, callVars, connectedAddress, pendingTxs>>
    /\ UNCHANGED otherVars

\* The user selects another account in the wallet.
SwitchAccount ==
    /\ \E a \in Accounts \ {connectedAddress} : connectedAddress' = a
    /\ UNCHANGED <<route, pageVars, callVars, safeInfo, pendingTxs>>
    /\ UNCHANGED otherVars

\* setTimeout(() => setToast(null), 3000) fires.
ClearToast ==
    /\ route = "tx"
    /\ toast # Null
    /\ toast' = Null
    /\ UNCHANGED <<route, loading, safeTx, signing, broadcasting, showModal,
                   broadcastHash, broadcastError, showAddSigModal, callVars,
                   envVars, pendingTxs>>
    /\ UNCHANGED otherVars

\* The page is left: its state is gone, and calls it awaited report to nobody.
Unmounted ==
    /\ route' = "safe"
    /\ loading' = TRUE
    /\ safeTx' = Null
    /\ signing' = FALSE
    /\ broadcasting' = FALSE
    /\ showModal' = FALSE
    /\ broadcastHash' = Null
    /\ broadcastError' = Null
    /\ toast' = Null
    /\ showAddSigModal' = FALSE
    /\ signCall' = Null
    /\ bcastCall' = Null

\* "Back to Dashboard (Queued)": router.push(`/safe/${safeAddress}`)
BackToDashboard ==
    /\ TxViewShown
    /\ Unmounted
    /\ UNCHANGED <<envVars, pendingTxs>>
    /\ UNCHANGED otherVars

\* The transaction page is opened again from the dashboard.
OpenTxPage ==
    /\ route = "safe"
    /\ route' = "tx"
    /\ UNCHANGED <<pageVars, callVars, envVars, pendingTxs>>
    /\ UNCHANGED otherVars

-----------------------------------------------------------------------------
(* The effect that fetches the transaction of the route's hash.            *)

\* The first stored transaction whose hash is the route's, or null.
MatchingTx(store) ==
    LET allTxs == getAllTransactions(store, SafeAddress, ChainId)
        hit == {i \in 1..Len(allTxs) : getTransactionHash(allTxs[i]) = txHash}
    IN  IF hit = {} THEN Null
        ELSE allTxs[CHOOSE i \in hit : \A j \in hit : i <= j]

\* fetchTx runs to its end: setSafeTx(matchingTx), setLoading(false).
FetchTxDone ==
    /\ route = "tx"
    /\ loading
    /\ safeTx' = MatchingTx(pendingTxs)
    /\ loading' = FALSE
    /\ UNCHANGED <<route, signing, broadcasting, showModal, broadcastHash,
                   broadcastError, toast, showAddSigModal, callVars, envVars,
                   pendingTxs>>
    /\ UNCHANGED otherVars

-----------------------------------------------------------------------------
(* handleSign                                                              *)

\* Click on "Sign Transaction": setSigning(true), then the call is awaited.
HandleSign ==
    /\ TxViewShown
    /\ ~SignBtnDisabled
    /\ signing' = TRUE
    /\ signCall' = [tx |-> safeTx, account |-> connectedAddress]
    /\ UNCHANGED <<route, loading, safeTx, broadcasting, showModal, broadcastHash,
                   broadcastError, toast, showAddSigModal, bcastCall, envVars,
                   pendingTxs>>
    /\ UNCHANGED otherVars

\* What the awaited call ends with.
SignOutcomes == {"signed", "null", "throw"}

\* A variant of the rest of handleSign that returns from its failure paths
\* before setSigning(false).
HandleSignReturn_Stuck(o) ==
    /\ route = "tx"
    /\ signCall # Null
    /\ IF o = "signed"
       THEN LET signedTx == SignedCopy(signCall.tx, signCall.account)
            IN  /\ pendingTxs' = saveTransaction(pendingTxs, SafeAddress, signedTx, ChainId)
                /\ toast' = Toast("success", "Signature added!")
                /\ safeTx' = signedTx
                /\ signing' = FALSE
       ELSE /\ toast' = Toast("error", "Signing failed")
            /\ UNCHANGED <<safeTx, pendingTxs, signing>>
    /\ signCall' = Null
    /\ UNCHANGED <<route, loading, broadcasting, showModal, broadcastHash,
                   broadcastError, showAddSigModal,
                   bcastCall, envVars>>
    /\ UNCHANGED otherVars

\* The rest of handleSign, for outcome o of signSafeTransaction.
HandleSignReturn(o) ==
    /\ route = "tx"
    /\ signCall # Null
    /\ IF o = "signed"
       THEN LET signedTx == SignedCopy(signCall.tx, signCall.account)
            IN  /\ pendingTxs' = saveTransaction(pendingTxs, SafeAddress, signedTx, ChainId)
                /\ toast' = Toast("success", "Signature added!")
                /\ safeTx' = signedTx
       ELSE /\ toast' = Toast("error", "Signing failed")
            /\ UNCHANGED <<safeTx, pendingTxs>>
    /\ signing' = FALSE
    /\ signCall' = Null
    /\ UNCHANGED <<route, loading, broadcasting, showModal, broadcastHash,
                   broadcastError, showAddSigModal,
                   bcastCall, envVars>>
    /\ UNCHANGED otherVars

-----------------------------------------------------------------------------
(* handleBroadcast and the BroadcastModal                                  *)

\* Click on "Broadcast Transaction": setBroadcasting(true), then the call is
\* awaited.
HandleBroadcast ==
    /\ TxViewShown
    /\ ~BroadcastBtnDisabled
    /\ broadcasting' = TRUE
    /\ bcastCall' = [txHash |-> getTransactionHash(safeTx)]
    /\ UNCHANGED <<route, loading, safeTx, signing, showModal, broadcastHash,
                   broadcastError, toast, showAddSigModal, signCall, envVars,
                   pendingTxs>>
    /\ UNCHANGED otherVars

\* What the awaited call ends with: a result carrying a hash, no result
\* object, or an error.
BroadcastOutcomes == {"hash", "noresult", "throw"}

\* result.hash: the hash of the chain transaction that executed the call's
\* Safe transaction.
ResultHash(call) == [kind |-> "hash", executed |-> call.txHash]

\* A variant of the rest of handleBroadcast that discards the transaction
\* when the broadcast fails.
HandleBroadcastReturn_Discard(o) ==
    /\ route = "tx"
    /\ bcastCall # Null
    /\ IF o = "throw"
       THEN /\ broadcastError' = [kind |-> "error", message |-> "broadcast error"]
            /\ UNCHANGED broadcastHash
            /\ toast' = Toast("error", "Broadcast failed")
            /\ pendingTxs' = removeTransaction(pendingTxs, SafeAddress)
       ELSE /\ broadcastHash' = IF o = "hash" THEN ResultHash(bcastCall) ELSE Null
            /\ broadcastError' = Null
            /\ toast' = Toast("success", "Broadcast successful!")
            /\ UNCHANGED pendingTxs
    /\ showModal' = TRUE
    /\ broadcasting' = FALSE
    /\ bcastCall' = Null
    /\ UNCHANGED <<route, loading, safeTx, signing, showAddSigModal, signCall, envVars>>
    /\ UNCHANGED otherVars

\* The rest of handleBroadcast, for outcome o of broadcastSafeTransaction.
HandleBroadcastReturn(o) ==
    /\ route = "tx"
    /\ bcastCall # Null
    /\ IF o = "throw"
       THEN /\ broadcastError' = [kind |-> "error", message |-> "broadcast error"]
            /\ UNCHANGED broadcastHash
            /\ toast' = Toast("error", "Broadcast failed")
       ELSE /\ broadcastHash' = IF o = "hash" THEN ResultHash(bcastCall) ELSE Null
            /\ broadcastError' = Null
            /\ toast' = Toast("success", "Broadcast successful!")
    /\ showModal' = TRUE
    /\ broadcasting' = FALSE
    /\ bcastCall' = Null
    /\ UNCHANGED <<route, loading, safeTx, signing, showAddSigModal, signCall, envVars, pendingTxs>>
    /\ UNCHANGED otherVars

\* BroadcastModal onClose: setShowModal(false)
ModalClose ==
    /\ TxViewShown
    /\ showModal
    /\ showModal' = FALSE
    /\ UNCHANGED <<route, loading, safeTx, signing, broadcasting, broadcastHash,
                   broadcastError, toast, showAddSigModal, callVars, envVars,
                   pendingTxs>>
    /\ UNCHANGED otherVars

\* BroadcastModal onSuccess ("Back to Safe"): removeTransaction(safeAddress),
\* setShowModal(false), router.push(`/safe/${safeAddress}`)
ModalSuccess ==
    /\ TxViewShown
    /\ showModal
    /\ broadcastHash # Null
    /\ pendingTxs' = removeTransaction(pendingTxs, SafeAddress)
    /\ Unmounted
    /\ UNCHANGED envVars
    /\ UNCHANGED otherVars

-----------------------------------------------------------------------------
(* The "Add Signature Manually" dialog and handleAddSignature              *)

\* Click on "Add Signature" in the action row: setShowAddSigModal(true)
OpenAddSigModal ==
    /\ TxViewShown
    /\ ~showAddSigModal
    /\ showAddSigModal' = TRUE
    /\ UNCHANGED <<route, loading, safeTx, signing, broadcasting, showModal,
                   broadcastHash, broadcastError, toast, callVars, envVars,
                   pendingTxs>>
    /\ UNCHANGED otherVars

\* "Cancel" in the dialog
CancelAddSig ==
    /\ TxViewShown
    /\ showAddSigModal
    /\ showAddSigModal' = FALSE
    /\ UNCHANGED <<route, loading, safeTx, signing, broadcasting, showModal,
                   broadcastHash, broadcastError, toast, callVars, envVars,
                   pendingTxs>>
    /\ UNCHANGED otherVars

\* Why handleAddSignature refuses its inputs ("" when it does not).
AddSignatureError(tx, signer, data) ==
    IF signer = EmptyStr \/ data = EmptyData
        THEN "Signer address and signature data are required"
    ELSE IF ~MatchesAddress(signer) THEN "Invalid signer address format"
    ELSE IF ~MatchesHex(data) THEN "Invalid signature data format"
    \* safeTx.addSignature is no function of an object made by { ...safeTx }
    ELSE IF ~tx.inst THEN "Failed to add signature"
    ELSE ""

\* A call still working on the page's transaction object sees the signature
\* added to that object's map.
Aliased(call, sigs) ==
    IF call # Null
    THEN [call EXCEPT !.tx = [call.tx EXCEPT !.signatures = sigs]]
    ELSE call

\* Click on "Add Signature" in the dialog, the two inputs of the dialog
\* holding signerAddress and signatureData; the button is disabled while
\* either is empty.  saveTransaction stores the transaction (persisted) or
\* throws into the handler's catch, after safeTx.addSignature has added the
\* signature to the page's transaction object.
HandleAddSignature(signerAddress, signatureData, persisted) ==
    /\ TxViewShown
    /\ showAddSigModal
    /\ signerAddress # EmptyStr /\ signatureData # EmptyData
    /\ LET err == AddSignatureError(safeTx, signerAddress, signatureData)
           ethSignature == EthSafeSignature(signerAddress, signatureData, FALSE)
           added == [safeTx EXCEPT !.signatures = addSignature(@, ethSignature)]
       IN  IF err # ""
           THEN /\ toast' = Toast("error", err)
                /\ UNCHANGED <<safeTx, pendingTxs, showAddSigModal, signCall>>
           ELSE IF ~persisted
           THEN /\ toast' = Toast("error", "Failed to add signature")
                /\ safeTx' = added
                /\ signCall' = Aliased(signCall, added.signatures)
                /\ UNCHANGED <<pendingTxs, showAddSigModal>>
           ELSE /\ toast' = Toast("success", "Signature added successfully!")
                /\ pendingTxs' = saveTransaction(pendingTxs, SafeAddress, added, ChainId)
                /\ safeTx' = [added EXCEPT !.inst = FALSE]
                /\ signCall' = Aliased(signCall, added.signatures)
                /\ showAddSigModal' = FALSE
    /\ UNCHANGED <<route, loading, signing, broadcasting, showModal, broadcastHash,
                   broadcastError, bcastCall, envVars>>
    /\ UNCHANGED otherVars

-----------------------------------------------------------------------------

Next ==
    \/ LoadSafeInfo
    \/ SwitchAccount
    \/ BackToDashboard
    \/ OpenTxPage
    \/ ClearToast
    \/ FetchTxDone
    \/ HandleSign
    \/ \E o \in SignOutcomes : HandleSignReturn(o)
    \/ HandleBroadcast
    \/ \E o \in BroadcastOutcomes : HandleBroadcastReturn(o)
    \/ ModalClose
    \/ ModalSuccess
    \/ OpenAddSigModal
    \/ CancelAddSig
    \/ \E input \in ManualInputs : HandleAddSignature(input[1], input[2], TRUE)

Spec == Init /\ [][Next]_vars

-----------------------------------------------------------------------------
(* Properties.                                                             *)

\* The transaction of the route is in the pending set of its Safe and chain.
InPendingSet ==
    \E i \in 1..Len(pendingTxs[StoreKey]) :
        getTransactionHash(pendingTxs[StoreKey][i]) = txHash

\* The signature maps of the page's transaction before and after a step.
Sigs == IF safeTx = Null THEN <<>> ELSE safeTx.signatures

\* The lifecycle state the page shows for its transaction.
TxStatus ==
    IF broadcastHash # Null THEN "Broadcast"
    ELSE IF isExecutable(safeTx, safeInfo) THEN "Executable"
    ELSE "Pending"

\* C1: a broadcast can be started only with at least threshold signatures:
\* whenever the transaction is shown and no broadcast is in flight, the
\* Broadcast action is enabled exactly if the number of signatures is at
\* least the threshold (so it is disabled at threshold - 1 and enabled at
\* threshold, for every threshold 1..|owners|); it is never enabled before
\* the Safe's threshold is known.
C1_BroadcastOnlyAtThreshold ==
    /\ (ENABLED HandleBroadcast) =>
          /\ safeInfo # Null
          /\ safeInfo.threshold \in 1..Cardinality(safeInfo.owners)
          /\ Len(Sigs) >= safeInfo.threshold
    /\ (TxViewShown /\ safeInfo # Null /\ ~broadcasting) =>
          /\ Len(Sigs) = safeInfo.threshold - 1 => ~ENABLED HandleBroadcast
          /\ Len(Sigs) >= safeInfo.threshold => ENABLED HandleBroadcast

\* A broadcast is in flight that was started with exactly threshold
\* signatures, the threshold being the number of owners.
C1_Witness ==
    /\ bcastCall # Null
    /\ safeInfo # Null
    /\ safeInfo.threshold = NumOwners
    /\ Len(Sigs) = safeInfo.threshold

\* The signatures are those of owners a, then b, made by their wallets.
SignedBy(sigs, signers) ==
    /\ Len(sigs) = Len(signers)
    /\ \A i \in 1..Len(sigs) : sigs[i].sig = WalletSignature(signers[i])

\* A sign call returns in this step.
SignReturns == signCall # Null /\ signCall' = Null /\ route' = "tx"

\* A broadcast call returns in this step.
BroadcastReturns == bcastCall # Null /\ bcastCall' = Null /\ route' = "tx"

\* C2: with threshold 2, the transaction is Pending after the signature of
\* owner A, becomes Executable by the step that adds the signature of a
\* distinct owner B, and a broadcast returning a hash makes it Broadcast.
C2_SignSignBroadcast ==
    [][(safeInfo # Null /\ safeInfo.threshold = 2) =>
        \A a, b \in Owners :
            /\ (SignReturns /\ Sigs = <<>> /\ SignedBy(Sigs', <<a>>))
                  => TxStatus' = "Pending" /\ BroadcastBtnDisabled'
            /\ (SignReturns /\ SignedBy(Sigs, <<a>>) /\ SignedBy(Sigs', <<a, b>>))
                  => /\ a # b
                     /\ TxStatus = "Pending"
                     /\ TxStatus' = "Executable"
                     /\ ~BroadcastBtnDisabled'
            /\ (HandleBroadcastReturn("hash") /\ SignedBy(Sigs, <<a, b>>)
                    /\ TxStatus = "Executable")
                  => /\ TxStatus' = "Broadcast"
                     /\ showModal' /\ broadcastError' = Null
      ]_vars

\* Owners 1 and 2 have signed in this order, threshold 2, and the broadcast
\* has returned a hash.
C2_Witness ==
    /\ safeInfo # Null
    /\ safeInfo.threshold = 2
    /\ SignedBy(Sigs, <<1, 2>>)
    /\ broadcastHash # Null
    /\ showModal

\* C3: once a broadcast has returned a transaction hash, the transaction is
\* Broadcast and is not a member of the pending set of its Safe and chain, in
\* every later state, however the result dialog is dismissed.
C3_BroadcastRemovesFromPending ==
    broadcastHash # Null => (TxStatus = "Broadcast" /\ ~InPendingSet)

\* The stored form of the page's transaction.
Stored(tx) == [data |-> tx.data, signatures |-> tx.signatures]

\* C4: the step in which a broadcast call fails changes neither the page's
\* transaction nor the pending set, which still holds the transaction with
\* the data the attempt was started for and with the page's signatures; the
\* transaction is still executable with the Broadcast button enabled, and no
\* broadcast call is in flight after the step.
C4_FailedBroadcastKeepsTx ==
    [][(BroadcastReturns /\ broadcastError' # Null) =>
          /\ safeTx' = safeTx
          /\ pendingTxs' = pendingTxs
          /\ getTransactionHash(safeTx') = bcastCall.txHash
          /\ \E i \in 1..Len(pendingTxs'[StoreKey]) :
                pendingTxs'[StoreKey][i] = Stored(safeTx')
          /\ isExecutable(safeTx', safeInfo')
          /\ ~BroadcastBtnDisabled'
          /\ ~broadcasting'
          /\ bcastCall' = Null
      ]_vars

\* A broadcast has failed: its error is shown, the transaction is still
\* pending and executable, and nothing is in flight.
C4_Witness ==
    /\ broadcastError # Null
    /\ showModal
    /\ toast = Toast("error", "Broadcast failed")
    /\ broadcastHash = Null
    /\ bcastCall = Null
    /\ InPendingSet
    /\ isExecutable(safeTx, safeInfo)

\* C5: the step in which a sign call is rejected or fails (it resolves with
\* nothing or throws) changes neither the page's transaction nor the pending
\* set, the transaction is the one the call was started with, and the
\* signing flag is cleared: the Sign button is disabled only for a non-owner
\* or an owner who has signed.
C5_FailedSignKeepsTx ==
    [][(SignReturns /\ toast' = Toast("error", "Signing failed")) =>
          /\ safeTx' = safeTx
          /\ Stored(safeTx') = Stored(signCall.tx)
          /\ pendingTxs' = pendingTxs
          /\ ~signing'
          /\ signCall' = Null
          /\ SignBtnDisabled' = (~isOwner' \/ hasSignedThisTx')
      ]_vars

\* A sign call of an owner has failed: the transaction has no signature, in
\* memory and in the pending set, and the owner can sign again.
C5_Witness ==
    /\ toast = Toast("error", "Signing failed")
    /\ TxViewShown
    /\ Sigs = <<>>
    /\ pendingTxs[StoreKey] = <<[data |-> BuiltTxData, signatures |-> <<>>]>>
    /\ ~signing
    /\ signCall = Null
    /\ ENABLED HandleSign

\* C6: after a broadcast has returned a transaction hash, no broadcast call
\* for the transaction can be started in the session.
C6_NoSecondBroadcast ==
    broadcastHash # Null => ~ENABLED HandleBroadcast

\* C7: while a sign call or a broadcast call of the page is in flight,
\* neither a sign call nor a broadcast call can be started.
C7_OneCallInFlight ==
    (signCall # Null \/ bcastCall # Null) =>
        (~ENABLED HandleSign /\ ~ENABLED HandleBroadcast)

\* C8: the transaction holds at most one signature per signer address,
\* compared without case, and the signature data kept for a signer changes
\* only in a step in which a sign call of that signer returns.
C8_OneSignaturePerSigner ==
    [][/\ \A i, j \in 1..Len(Sigs') :
            toLowerCase(Sigs'[i].sig.signer) = toLowerCase(Sigs'[j].sig.signer)
                => i = j
       /\ \A i \in 1..Len(Sigs), j \in 1..Len(Sigs') :
            (Sigs[i].key = Sigs'[j].key /\ Sigs[i].sig.data # Sigs'[j].sig.data)
                => /\ SignReturns
                   /\ Sigs[i].key = toLowerCase(Addr(signCall.account, "checksum"))
      ]_vars

\* The signer recovered from the signature data is the claimed signer.
RecoversTo(signerAddress, signatureData) ==
    /\ MatchesAddress(signerAddress)
    /\ MatchesHex(signatureData)
    /\ RecoveredSigner(signatureData) = signerAddress.id

\* C9: a manual addition whose signature does not recover to the claimed
\* signer fails: it reports an error and changes neither the signatures of
\* the transaction nor the pending set.
C9_ManualSignatureVerified ==
    [][\A input \in ManualInputs :
          (HandleAddSignature(input[1], input[2], TRUE) /\ ~RecoversTo(input[1], input[2])) =>
              /\ toast'.type = "error"
              /\ Sigs' = Sigs
              /\ pendingTxs' = pendingTxs
      ]_vars

\* The owners of the Safe that have a signature on the transaction.
OwnersSigned(tx, info) ==
    {o \in info.owners : MapHas(tx.signatures, toLowerCase(o))}

\* C10: the transaction is executable only if at least threshold distinct
\* owners of the Safe have a signature on it.
C10_ExecutableOnlyByOwners ==
    isExecutable(safeTx, safeInfo) =>
        Cardinality(OwnersSigned(safeTx, safeInfo)) >= safeInfo.threshold

\* The signature map holds exactly this signature (same signer, same data).
HasSignature(sigs, sig) == \E i \in 1..Len(sigs) : sigs[i].sig = sig

\* C11: adding by hand a signature the transaction already holds (same
\* signer, same data) succeeds and leaves the signatures as they are: same
\* entries, same count, same insertion order.
C11_AddTwiceIsAddOnce ==
    [][\A input \in ManualInputs :
          (/\ HandleAddSignature(input[1], input[2], TRUE)
           /\ MatchesAddress(input[1]) /\ MatchesHex(input[2])
           /\ HasSignature(Sigs, EthSafeSignature(input[1], input[2], FALSE)))
          => (toast'.type = "success" /\ Sigs' = Sigs)
      ]_vars

-----------------------------------------------------------------------------
(* The effect that calculates the EIP-712 hashes of the loaded transaction. *)
(* A hash is modelled by the value it is taken of: equal hashes, equal      *)
(* inputs.                                                                  *)

\* ethers.TypedDataEncoder.hashDomain(domain)
hashDomain(domain) == <<"hashDomain", domain>>

\* ethers.TypedDataEncoder.hashStruct(name, types, message)
hashStruct(name, message) == <<"hashStruct", name, message>>

\* ethers.TypedDataEncoder.hash(domain, types, message)
TypedDataHash(domain, name, message) ==
    <<"0x1901", hashDomain(domain), hashStruct(name, message)>>

\* const domain = { chainId: chain.id, verifyingContract: safeAddress }
SafeTxDomain(safeAddress, chainId) ==
    [chainId |-> chainId, verifyingContract |-> safeAddress]

\* A variant of the message that also takes in the number of signatures.
SafeTxMessage_WithSignatures(tx) ==
    [to |-> tx.data.to,
     value |-> tx.data.value,
     data |-> tx.data.data,
     operation |-> tx.data.operation,
     safeTxGas |-> tx.data.safeTxGas,
     baseGas |-> tx.data.baseGas,
     gasPrice |-> tx.data.gasPrice,
     gasToken |-> tx.data.gasToken,
     refundReceiver |-> tx.data.refundReceiver,
     nonce |-> tx.data.nonce + Len(tx.signatures)]

\* const message = { to: safeTx.data.to, ..., nonce: safeTx.data.nonce }
SafeTxMessage(tx) ==
    [to |-> tx.data.to,
     value |-> tx.data.value,
     data |-> tx.data.data,
     operation |-> tx.data.operation,
     safeTxGas |-> tx.data.safeTxGas,
     baseGas |-> tx.data.baseGas,
     gasPrice |-> tx.data.gasPrice,
     gasToken |-> tx.data.gasToken,
     refundReceiver |-> tx.data.refundReceiver,
     nonce |-> tx.data.nonce]

\* What the effect leaves in eip712Data for a transaction, the Safe's info,
\* the route's Safe address and the wallet's chain.
Eip712Effect(tx, info, safeAddress, chainId) ==
    IF tx = Null \/ info = Null THEN Null
    ELSE [kind |-> "hashes",
          domainHash |-> hashDomain(SafeTxDomain(safeAddress, chainId)),
          messageHash |-> hashStruct("SafeTx", SafeTxMessage(tx)),
          eip712Hash |-> TypedDataHash(SafeTxDomain(safeAddress, chainId),
                                       "SafeTx", SafeTxMessage(tx))]

\* eip712Data of the page: the effect runs after every render in which
\* safeTx, safeInfo, safeAddress or chain has changed.
eip712Data ==
    IF route = "tx" THEN Eip712Effect(safeTx, safeInfo, SafeAddress, ChainId)
    ELSE Null

-----------------------------------------------------------------------------
(* Hash computations compared across sessions. A session is one browser    *)
(* with the transaction page and the WalletConnect signing page open on a  *)
(* Safe; sessIn[s] is what the hooks hand to the two pages, sessOut[s] the  *)
(* eip712Data state of each page.                                          *)

\* Strings compared by the code are sequences of UTF-16 code units.
RECURSIVE Decimal(_)
Decimal(n) == IF n < 10 THEN <<48 + n>> ELSE Decimal(n \div 10) \o <<48 + (n % 10)>>

\* The version string "major.minor.patch".
VersionString(v) == Decimal(v[1]) \o <<46>> \o Decimal(v[2]) \o <<46>> \o Decimal(v[3])

\* a < b on two JavaScript strings: code unit by code unit, a proper prefix
\* being the smaller.
RECURSIVE jsStringLess(_, _)
jsStringLess(a, b) ==
    IF b = <<>> THEN FALSE
    ELSE IF a = <<>> THEN TRUE
    ELSE IF Head(a) # Head(b) THEN Head(a) < Head(b)
    ELSE jsStringLess(Tail(a), Tail(b))

\* safeInfo.version || "1.4.1": an absent or empty version is the empty
\* sequence.
safeVersion(info) == IF info.version = <<>> THEN VersionString(<<1, 4, 1>>) ELSE info.version

includeChainId_Always(version) == TRUE

\* safeVersion >= "1.3.0" on strings.
includeChainId(version) == ~jsStringLess(version, VersionString(<<1, 3, 0>>))

\* The SafeMessage EIP-712 domain.
SafeMessageDomain(info, safeAddress, chainId) ==
    IF includeChainId(safeVersion(info))
    THEN [chainId |-> chainId, verifyingContract |-> safeAddress]
    ELSE [verifyingContract |-> safeAddress]

\* ethers.hashMessage(message): the EIP-191 digest of the literal message.
hashMessage(message) == <<"eip191", message>>

Str(v) == [kind |-> "str", v |-> v]

\* Whether the effect gets a message out of the dApp's request: the method
\* is a signing method and typed data has its domain, types and message.
HasSafeMessage(method, signParams) ==
    CASE method \in {"personal_sign", "eth_sign"} -> TRUE
      [] method \in {"eth_signTypedData", "eth_signTypedData_v4"} ->
            /\ signParams[2].domain # Null
            /\ signParams[2].types # Null
            /\ signParams[2].message # Null
      [] OTHER -> FALSE

SafeMessageOf_FirstParam(method, signParams) ==
    CASE method \in {"personal_sign", "eth_sign"} -> hashMessage(signParams[1])
      [] OTHER -> TypedDataHash(signParams[2].domain, signParams[2].types, signParams[2].message)

\* The message the dApp's request asks to sign, by method.
SafeMessageOf(method, signParams) ==
    CASE method = "personal_sign" -> hashMessage(signParams[1])
      [] method = "eth_sign" -> hashMessage(signParams[2])
      [] OTHER -> TypedDataHash(signParams[2].domain, signParams[2].types, signParams[2].message)

\* The WalletConnect page's hash effect: the new eip712Data, prev being the
\* one it replaces.
SafeMessageEffect(request, info, safeAddress, chainId, prev) ==
    IF request = Null \/ info = Null THEN prev
    ELSE IF ~HasSafeMessage(request.method, request.params) THEN Null
    ELSE LET safeMessageMessage == SafeMessageOf(request.method, request.params)
             domain == SafeMessageDomain(info, safeAddress, chainId)
             message == [message |-> safeMessageMessage]
         IN  [kind |-> "hashes",
              safeMessage |-> safeMessageMessage,
              eip712Hash |-> TypedDataHash(domain, "SafeMessage", message),
              domainHash |-> hashDomain(domain),
              messageHash |-> hashStruct("SafeMessage", message)]

\* Requests a dApp sends over WalletConnect.
DappTypedData == [domain |-> [name |-> "dapp"], types |-> [Mail |-> "string"],
                  message |-> [contents |-> "hello"]]
SignRequests ==
    { [method |-> "personal_sign", params |-> <<Str("0x68656c6c6f"), Addr(1, "checksum")>>],
      [method |-> "eth_sign", params |-> <<Addr(1, "checksum"), Str("0x68656c6c6f")>>],
      [method |-> "eth_signTypedData_v4", params |-> <<Addr(1, "checksum"), DappTypedData>>],
      [method |-> "eth_signTypedData", params |-> <<Addr(1, "checksum"),
                                                   [DappTypedData EXCEPT !.message = Null]>>],
      [method |-> "eth_sendTransaction", params |-> <<Str("0x")>>] }

\* What a session's pages are given.
Session(data, safeAddress, chainId, version, request) ==
    [tx |-> [data |-> data, signatures |-> <<>>],
     contractVersion |-> version,
     safeInfo |-> [version |-> VersionString(version)],
     safeAddress |-> safeAddress,
     chainId |-> chainId,
     request |-> request,
     connectedAddress |-> 1]

NoHashes == [tx |-> Null, wc |-> Null]

\* The transaction page's hash effect runs in session s.
TxHashEffect(s) ==
    /\ s \in DOMAIN sessIn
    /\ sessOut' = [sessOut EXCEPT ![s].tx =
            Eip712Effect(sessIn[s].tx, sessIn[s].safeInfo,
                         sessIn[s].safeAddress, sessIn[s].chainId)]
    /\ UNCHANGED <<appVars, wireVars, buildVars, restVars, sessIn>>

\* The WalletConnect page's hash effect runs in session s.
WcHashEffect(s) ==
    /\ s \in DOMAIN sessIn
    /\ sessOut' = [sessOut EXCEPT ![s].wc =
            SafeMessageEffect(sessIn[s].request, sessIn[s].safeInfo,
                              sessIn[s].safeAddress, sessIn[s].chainId, sessOut[s].wc)]
    /\ UNCHANGED <<appVars, wireVars, buildVars, restVars, sessIn>>

\* An owner's signature lands on the session's transaction.
SessionSigned(s) ==
    /\ s \in DOMAIN sessIn
    /\ sessIn[s].tx.signatures = <<>>
    /\ sessIn' = [sessIn EXCEPT ![s].tx.signatures = addSignature(@, WalletSignature(1))]
    /\ UNCHANGED <<appVars, wireVars, buildVars, restVars, sessOut>>

\* The session's wallet switches to another account.
SessionSwitchAccount(s) ==
    /\ s \in DOMAIN sessIn
    /\ sessIn[s].connectedAddress = 1
    /\ sessIn' = [sessIn EXCEPT ![s].connectedAddress = Outsider]
    /\ UNCHANGED <<appVars, wireVars, buildVars, restVars, sessOut>>

NextHash ==
    \E s \in DOMAIN sessIn :
        \/ TxHashEffect(s)
        \/ WcHashEffect(s)
        \/ SessionSigned(s)
        \/ SessionSwitchAccount(s)

\* Two sessions, each on one of two transactions, Safes, chains and versions.
InitHash ==
    /\ PageInit
    /\ connectedAddress = 1
    /\ NoWire
    /\ NoBuild
    /\ NoRest
    /\ sessIn \in [{1, 2} ->
            { Session(d, a, c, v,
                      [method |-> "personal_sign",
                       params |-> <<Str("0x68656c6c6f"), Addr(1, "checksum")>>]) :
                <<d, a, c, v>> \in {BuiltTxData, [BuiltTxData EXCEPT !.nonce = @ + 1]}
                                   \X {SafeAddress, "0xOtherSafe"}
                                   \X {ChainId, 100}
                                   \X {<<1, 2, 9>>, <<1, 3, 0>>} }]
    /\ sessOut = [s \in {1, 2} |-> NoHashes]

SpecHash == InitHash /\ [][NextHash]_vars

\* C13: two sessions given the same transaction data, Safe address, chain id
\* and Safe version show the same domainHash, messageHash and safeTxHash,
\* whatever their signatures and connected accounts are, and a computation
\* repeated in one session gives again what it gave before.
SameHashInputs(s, t) ==
    /\ sessIn[s].tx.data = sessIn[t].tx.data
    /\ sessIn[s].safeAddress = sessIn[t].safeAddress
    /\ sessIn[s].chainId = sessIn[t].chainId
    /\ sessIn[s].contractVersion = sessIn[t].contractVersion

C13_HashDeterministic ==
    /\ [](\A s, t \in DOMAIN sessIn :
            (SameHashInputs(s, t) /\ sessOut[s].tx # Null /\ sessOut[t].tx # Null)
            => sessOut[s].tx = sessOut[t].tx)
    /\ [][\A s \in DOMAIN sessIn :
            (sessOut[s].tx # Null /\ sessOut'[s].tx # Null)
            => sessOut'[s].tx = sessOut[s].tx]_vars

C13_Witness ==
    /\ DOMAIN sessIn = {1, 2}
    /\ SameHashInputs(1, 2)
    /\ sessIn[1].tx.signatures # sessIn[2].tx.signatures
    /\ sessIn[1].connectedAddress # sessIn[2].connectedAddress
    /\ sessOut[1].tx # Null
    /\ sessOut[2].tx = sessOut[1].tx

-----------------------------------------------------------------------------
(* The EIP-712 domain by Safe version: one session on a Safe of any        *)
(* version major.minor.patch with components up to MaxVer, asked to sign    *)
(* any of the requests.                                                    *)

MaxVer == 10
Versions == (0..MaxVer) \X (0..MaxVer) \X (0..MaxVer)

InitVersion ==
    /\ PageInit
    /\ connectedAddress = 1
    /\ NoWire
    /\ NoBuild
    /\ NoRest
    /\ sessIn \in [{1} -> { Session(BuiltTxData, SafeAddress, ChainId, v, r) :
                              <<v, r>> \in Versions \X SignRequests }]
    /\ sessOut = [s \in {1} |-> NoHashes]

SpecVersion == InitVersion /\ [][NextHash]_vars

\* v >= w on versions, number by number.
SemverGE(v, w) ==
    \/ v[1] > w[1]
    \/ v[1] = w[1] /\ v[2] > w[2]
    \/ v[1] = w[1] /\ v[2] = w[2] /\ v[3] >= w[3]

\* The domain a shown domainHash was computed from.
DomainOf(hashes) == hashes.domainHash[2]
HasChainId(domain) == "chainId" \in DOMAIN domain

\* C14: the domain of every computed hash, SafeTx and SafeMessage alike,
\* contains chainId if and only if the Safe's version is at least 1.3.0, and
\* is verifyingContract alone below that.
C14_ChainIdIffAtLeast130 ==
    \A s \in DOMAIN sessIn :
        /\ sessOut[s].tx # Null =>
             (HasChainId(DomainOf(sessOut[s].tx))
                <=> SemverGE(sessIn[s].contractVersion, <<1, 3, 0>>))
        /\ sessOut[s].wc # Null =>
             (HasChainId(DomainOf(sessOut[s].wc))
                <=> SemverGE(sessIn[s].contractVersion, <<1, 3, 0>>))
        /\ \A h \in {sessOut[s].tx, sessOut[s].wc} \ {Null} :
             DOMAIN DomainOf(h) \in {{"verifyingContract"}, {"chainId", "verifyingContract"}}

\* C15: the SafeMessage domain includes chainId exactly when the version's
\* numbers (major, minor, patch) are at least (1, 3, 0), so 1.10.0 includes it
\* and 1.2.9 does not.
C15_SemanticVersionComparison ==
    \A s \in DOMAIN sessIn :
        sessOut[s].wc # Null =>
            (includeChainId(sessIn[s].safeInfo.version)
                <=> SemverGE(sessIn[s].contractVersion, <<1, 3, 0>>))

-----------------------------------------------------------------------------
(* Export from the transaction page and import in another session.         *)

MaxSigs == 2

\* The orders in which up to MaxSigs distinct accounts can have signed.
SignerOrders ==
    {q \in UNION {[1..n -> Accounts] : n \in 0..MaxSigs} :
        \A i, j \in DOMAIN q : i # j => q[i] # q[j]}

\* Signature Store merge(tx.signatures, incoming): the incoming signatures
\* folded in, each inserted or replacing the one of the same signer.
RECURSIVE merge(_, _)
merge(sigs, incoming) ==
    IF incoming = <<>> THEN sigs
    ELSE merge(addSignature(sigs, Head(incoming)), Tail(incoming))

\* The signature map after the accounts of the order signed, their addresses
\* written in the given letter case.
SigMap(order, form) ==
    merge(<<>>, [i \in 1..Len(order) |-> EthSafeSignature(Addr(order[i], form), Hex(order[i]), FALSE)])

\* JSON.stringify / JSON.parse, btoa / atob, encodeURIComponent /
\* decodeURIComponent: text wrapping a value, and its unwrapping.
JSONstringify(value) == <<"json", value>>
JSONparse(text) == text[2]
btoa(text) == <<"base64", text>>
atob(text) == text[2]
encodeURIComponent(text) == <<"uri", text>>
decodeURIComponent(text) == text[2]

ExportedSignatures_ByAddress(tx) ==
    SortSeq([i \in 1..Len(tx.signatures) |->
                [signer |-> tx.signatures[i].sig.signer,
                 data |-> tx.signatures[i].sig.data,
                 isContractSignature |-> tx.signatures[i].sig.isContractSignature]],
            LAMBDA a, b : a.signer.id < b.signer.id)

\* Array.from(safeTx.signatures.values()).map(...): the signatures in
\* insertion order, three fields each.
ExportedSignatures(tx) ==
    [i \in 1..Len(tx.signatures) |->
        [signer |-> tx.signatures[i].sig.signer,
         data |-> tx.signatures[i].sig.data,
         isContractSignature |-> tx.signatures[i].sig.isContractSignature]]

\* txData of both export handlers.
ExportedTx(tx) == [data |-> tx.data, signatures |-> ExportedSignatures(tx)]

\* handleExportSingle: the browser downloads the transaction as a JSON file.
HandleExportSingle ==
    /\ TxViewShown
    /\ download' = [name |-> <<"safe-tx-nonce-", safeTx.data.nonce, ".json">>,
                    content |-> JSONstringify([tx |-> ExportedTx(safeTx)])]
    /\ toast' = Toast("success", "Transaction exported!")
    /\ UNCHANGED <<route, loading, safeTx, signing, broadcasting, showModal,
                   broadcastHash, broadcastError, showAddSigModal, callVars,
                   envVars, pendingTxs>>
    /\ UNCHANGED <<hashVars, buildVars, restVars, clipboard, peerTxs, importResult, importModal>>

\* handleShareLink: the share link goes to the clipboard; the write is not
\* awaited, so the toast reports success whether or not it was written.
HandleShareLink(written) ==
    /\ TxViewShown
    /\ clipboard' =
         IF written
         THEN [safeAddress |-> SafeAddress,
               importTx |-> encodeURIComponent(btoa(JSONstringify([tx |-> ExportedTx(safeTx)]))),
               chainId |-> ChainId]
         ELSE clipboard
    /\ toast' = Toast("success", "Share link copied to clipboard!")
    /\ UNCHANGED <<route, loading, safeTx, signing, broadcasting, showModal,
                   broadcastHash, broadcastError, showAddSigModal, callVars,
                   envVars, pendingTxs>>
    /\ UNCHANGED <<hashVars, buildVars, restVars, download, peerTxs, importResult, importModal>>

decode_FirstOnly(wire) ==
    IF "tx" \in DOMAIN wire THEN <<wire.tx>> ELSE <<wire.transactions[1]>>

\* Codec decode of a parsed wire object: the single form gives one
\* transaction, the batch form its transactions.
decode(wire) ==
    IF "tx" \in DOMAIN wire THEN <<wire.tx>> ELSE wire.transactions

importTransaction_Replace(store, key, wireTx) ==
    LET old == store[key]
        tx == [data |-> wireTx.data, signatures |-> merge(<<>>, wireTx.signatures)]
        hit == {i \in 1..Len(old) : getTransactionHash(old[i]) = getTransactionHash(tx)}
    IN  IF hit = {}
        THEN [store |-> [store EXCEPT ![key] = Append(old, tx)],
              result |-> [case |-> "created", count |-> Len(tx.signatures)]]
        ELSE [store |-> [store EXCEPT ![key] =
                            [i \in 1..Len(old) |-> IF i \in hit THEN tx ELSE old[i]]],
              result |-> [case |-> "merged", count |-> Len(tx.signatures)]]

\* importTransaction(wire): the hash is recomputed from the decoded data; a
\* transaction with that hash in the pending set of the (safe, chain) gets
\* the incoming signatures merged in, otherwise a new entry is created.
importTransaction(store, key, wireTx) ==
    LET old == store[key]
        tx == [data |-> wireTx.data, signatures |-> merge(<<>>, wireTx.signatures)]
        hit == {i \in 1..Len(old) : getTransactionHash(old[i]) = getTransactionHash(tx)}
    IN  IF hit = {}
        THEN [store |-> [store EXCEPT ![key] = Append(old, tx)],
              result |-> [case |-> "created", count |-> Len(tx.signatures)]]
        ELSE LET merged == [i \in 1..Len(old) |->
                              IF i \in hit
                              THEN [old[i] EXCEPT !.signatures = merge(@, wireTx.signatures)]
                              ELSE old[i]]
             IN  [store |-> [store EXCEPT ![key] = merged],
                  result |-> [case |-> "merged",
                              count |-> Len(merged[CHOOSE i \in hit : TRUE].signatures)]]

\* The other session imports the downloaded file.
ImportFile ==
    /\ download # Null
    /\ LET wire == decode(JSONparse(download.content))
           done == importTransaction(peerTxs, StoreKey, wire[1])
       IN  /\ peerTxs' = done.store
           /\ importResult' = done.result
    /\ UNCHANGED <<appVars, hashVars, buildVars, restVars, download, clipboard, importModal>>

\* The other session opens the share link.
ImportLink ==
    /\ clipboard # Null
    /\ LET wire == decode(JSONparse(atob(decodeURIComponent(clipboard.importTx))))
           done == importTransaction(peerTxs, <<clipboard.safeAddress, clipboard.chainId>>, wire[1])
       IN  /\ peerTxs' = done.store
           /\ importResult' = done.result
    /\ UNCHANGED <<appVars, hashVars, buildVars, restVars, download, clipboard, importModal>>

NextWire ==
    \/ HandleExportSingle
    \/ \E written \in BOOLEAN : HandleShareLink(written)
    \/ ClearToast
    \/ ImportFile
    \/ ImportLink

\* The page shows a transaction carrying any of the signature maps; the
\* importing session holds nothing, another transaction, or the same
\* transaction with any of the signature maps in either letter case.
InitWire ==
    /\ route = "tx"
    /\ loading = FALSE
    /\ \E order \in SignerOrders :
          safeTx = [data |-> BuiltTxData, signatures |-> SigMap(order, "checksum"), inst |-> TRUE]
    /\ signing = FALSE
    /\ broadcasting = FALSE
    /\ showModal = FALSE
    /\ broadcastHash = Null
    /\ broadcastError = Null
    /\ toast = Null
    /\ showAddSigModal = FALSE
    /\ connectedAddress = 1
    /\ safeInfo = Null
    /\ pendingTxs = [k \in {StoreKey} |-> <<Stored(safeTx)>>]
    /\ signCall = Null
    /\ bcastCall = Null
    /\ NoSessions
    /\ download = Null
    /\ clipboard = Null
    /\ peerTxs \in
         [{StoreKey} ->
            {<<>>, <<[data |-> [BuiltTxData EXCEPT !.nonce = @ + 1], signatures |-> <<>>]>>}
            \cup {<<[data |-> BuiltTxData, signatures |-> SigMap(order, form)]>> :
                     <<order, form>> \in SignerOrders \X Forms}]
    /\ importResult = Null
    /\ importModal = Null
    /\ NoBuild
    /\ NoRest

SpecWire == InitWire /\ [][NextWire]_vars

\* What the file and the link in flight carry.
FilePayload == decode(JSONparse(download.content))[1]
LinkPayload == decode(JSONparse(atob(decodeURIComponent(clipboard.importTx))))[1]

\* The signers of a signature map and of a wire signature list.
MapSigners(sigs) == {toLowerCase(sigs[i].sig.signer) : i \in 1..Len(sigs)}
WireSigners(list) == {toLowerCase(list[i].signer) : i \in 1..Len(list)}

\* In this step the importing session, holding a transaction with the hash
\* of the wire transaction w, ends with that one entry carrying the union of
\* the signatures, one per signer.
MergedWith(w) ==
    LET old == peerTxs[StoreKey]
        new == peerTxs'[StoreKey]
        h == getTransactionHash([data |-> w.data])
        hit == {i \in 1..Len(old) : getTransactionHash(old[i]) = h}
    IN  hit # {} =>
          /\ Len(new) = Len(old)
          /\ {i \in 1..Len(new) : getTransactionHash(new[i]) = h} = hit
          /\ Cardinality(hit) = 1
          /\ importResult'.case = "merged"
          /\ \A i \in hit :
                /\ new[i].data = old[i].data
                /\ MapSigners(new[i].signatures)
                     = MapSigners(old[i].signatures) \cup WireSigners(w.signatures)
                /\ Len(new[i].signatures) = Cardinality(MapSigners(new[i].signatures))
                /\ importResult'.count = Len(new[i].signatures)

Reproduced ==
    LET old == peerTxs[StoreKey]
        new == peerTxs'[StoreKey]
    IN  (\A i \in 1..Len(old) : getTransactionHash(old[i]) # getTransactionHash(safeTx)) =>
          /\ Len(new) = Len(old) + 1
          /\ new[Len(new)].data = safeTx.data
          /\ new[Len(new)].signatures = safeTx.signatures

WireFields == {"signer", "data", "isContractSignature"}

C20_OnlyBatchFormEmitted ==
    /\ download # Null => DOMAIN JSONparse(download.content) = {"transactions"}
    /\ clipboard # Null =>
         DOMAIN JSONparse(atob(decodeURIComponent(clipboard.importTx))) = {"transactions"}

-----------------------------------------------------------------------------
(* The transaction builder: call intents are built into one transaction,   *)
(* which is queued in the pending set.                                     *)

MaxIntents == 3
MaxPending == 2
MaxNonce == 2

\* Addresses of the builder scenarios and the bytes they stand for.
AddressA == "0x1111111111111111111111111111111111111111"
AddressB == "0x2222222222222222222222222222222222222222"
CustomMultiSend == "0x9999999999999999999999999999999999999999"
DefaultMultiSend == "0x3838383838383838383838383838383838383838"
AddressBytes(address) ==
    [i \in 1..20 |->
        CASE address = AddressA -> 17
          [] address = AddressB -> 34
          [] address = CustomMultiSend -> 153
          [] address = DefaultMultiSend -> 56
          [] OTHER -> 0]

\* n as a 32-byte big-endian word.
Uint256(n) ==
    [i \in 1..32 |->
        CASE i = 32 -> n % 256
          [] i = 31 -> (n \div 256) % 256
          [] i = 30 -> (n \div 65536) % 256
          [] OTHER -> 0]

Call == 0
DelegateCall == 1

\* The calls the user enters in the model: data as bytes.
IntentA == [to |-> AddressA, value |-> 0, data |-> <<170>>]
IntentB == [to |-> AddressB, value |-> 5, data |-> <<187>>]
Intents == {IntentA, IntentB, [to |-> AddressB, value |-> 300, data |-> <<>>]}

PackedCall_NoLength(intent) ==
    <<Call>> \o AddressBytes(intent.to) \o Uint256(intent.value) \o intent.data

\* One call of a batch, packed.
PackedCall(intent) ==
    <<Call>> \o AddressBytes(intent.to) \o Uint256(intent.value)
             \o Uint256(Len(intent.data)) \o intent.data

\* The packed calls in intent order.
RECURSIVE encodeMultiSendData(_)
encodeMultiSendData(list) ==
    IF list = <<>> THEN <<>>
    ELSE PackedCall(Head(list)) \o encodeMultiSendData(Tail(list))

\* The call multiSend(bytes) with the payload as its argument: selector,
\* offset, length, payload, padding to a whole word.
MultiSendCall(payload) ==
    <<141, 128, 255, 10>> \o Uint256(32) \o Uint256(Len(payload)) \o payload
        \o [i \in 1..((32 - (Len(payload) % 32)) % 32) |-> 0]

\* The MultiSend contract of the network: the override of the network
\* settings, else the default.
ResolvedMultiSend(setting) == IF setting = "" THEN DefaultMultiSend ELSE setting

\* The nonce a new draft gets: the on-chain nonce plus the number of pending
\* transactions of the Safe.
DraftNonce(store, onChain) == onChain + Len(store[StoreKey])

\* The transaction the builder makes of its intents.
BuildTransaction(list, setting, nonce) ==
    [data |->
        [to |-> IF Len(list) = 1 THEN list[1].to ELSE ResolvedMultiSend(setting),
         value |-> IF Len(list) = 1 THEN list[1].value ELSE 0,
         data |-> IF Len(list) = 1 THEN list[1].data
                  ELSE MultiSendCall(encodeMultiSendData(list)),
         operation |-> IF Len(list) = 1 THEN Call ELSE DelegateCall,
         safeTxGas |-> 0, baseGas |-> 0, gasPrice |-> 0,
         gasToken |-> ZeroAddress, refundReceiver |-> ZeroAddress,
         nonce |-> nonce],
     signatures |-> <<>>]

\* The user adds a call to the builder's list.
AddIntent(intent) ==
    /\ route = "builder"
    /\ Len(intents) < MaxIntents
    /\ intents' = Append(intents, intent)
    /\ UNCHANGED <<appVars, hashVars, wireVars, restVars, multiSendAddress, chainNonce>>

\* The user saves the network form with a MultiSend address or without.
SaveNetwork(address) ==
    /\ route = "builder"
    /\ multiSendAddress # address
    /\ multiSendAddress' = address
    /\ UNCHANGED <<appVars, hashVars, wireVars, restVars, intents, chainNonce>>

\* The user builds the transaction: it is queued and the list is empty again.
Build ==
    /\ route = "builder"
    /\ intents # <<>>
    /\ Len(pendingTxs[StoreKey]) < MaxPending
    /\ pendingTxs' = saveTransaction(pendingTxs, SafeAddress,
                        BuildTransaction(intents, multiSendAddress,
                                         DraftNonce(pendingTxs, chainNonce)),
                        ChainId)
    /\ intents' = <<>>
    /\ UNCHANGED <<route, pageVars, callVars, envVars, hashVars, wireVars, restVars,
                   multiSendAddress, chainNonce>>

\* The user discards the i-th pending transaction.
Discard(i) ==
    /\ route = "builder"
    /\ i \in 1..Len(pendingTxs[StoreKey])
    /\ pendingTxs' = [pendingTxs EXCEPT ![StoreKey] =
                         [j \in 1..(Len(@) - 1) |-> IF j < i THEN @[j] ELSE @[j + 1]]]
    /\ UNCHANGED <<route, pageVars, callVars, envVars, hashVars, wireVars, restVars, buildVars>>

\* A transaction drafted elsewhere with the given nonce is imported.
ImportDraft(nonce) ==
    /\ route = "builder"
    /\ Len(pendingTxs[StoreKey]) < MaxPending
    /\ pendingTxs' = importTransaction(pendingTxs, StoreKey,
                        [data |-> BuildTransaction(<<IntentB>>,
                                                   multiSendAddress, nonce).data,
                         signatures |-> <<>>]).store
    /\ UNCHANGED <<route, pageVars, callVars, envVars, hashVars, wireVars, restVars, buildVars>>

\* The pending transaction whose nonce is the Safe's is executed on chain
\* and leaves the pending set.
BroadcastPending(i) ==
    /\ route = "builder"
    /\ i \in 1..Len(pendingTxs[StoreKey])
    /\ pendingTxs[StoreKey][i].data.nonce = chainNonce
    /\ chainNonce < MaxNonce
    /\ chainNonce' = chainNonce + 1
    /\ pendingTxs' = [pendingTxs EXCEPT ![StoreKey] =
                         [j \in 1..(Len(@) - 1) |-> IF j < i THEN @[j] ELSE @[j + 1]]]
    /\ UNCHANGED <<route, pageVars, callVars, envVars, hashVars, wireVars, restVars,
                   intents, multiSendAddress>>

\* The builder open on a Safe with nothing pending.
BuilderOpen ==
    /\ route = "builder"
    /\ MountedState
    /\ connectedAddress = 1
    /\ safeInfo = Null
    /\ pendingTxs = [k \in {StoreKey} |-> <<>>]
    /\ signCall = Null
    /\ bcastCall = Null
    /\ NoSessions
    /\ NoWire
    /\ NoRest

\* Building from any list of up to MaxIntents calls, under either network
\* setting.
InitBuild ==
    /\ BuilderOpen
    /\ intents \in UNION {[1..n -> Intents] : n \in 0..MaxIntents}
    /\ multiSendAddress = ""
    /\ chainNonce = 0

NextBuild ==
    \/ \E address \in {"", CustomMultiSend} : SaveNetwork(address)
    \/ Build

SpecBuild == InitBuild /\ [][NextBuild]_vars

\* Drafts of one call queued, discarded, imported and executed.
InitNonce ==
    /\ BuilderOpen
    /\ NoBuild

NextNonce ==
    \/ AddIntent(IntentA)
    \/ Build
    \/ \E i \in 1..MaxPending : Discard(i)
    \/ \E nonce \in 0..(MaxNonce + MaxPending) : ImportDraft(nonce)
    \/ \E i \in 1..MaxPending : BroadcastPending(i)

SpecNonce == InitNonce /\ [][NextNonce]_vars

\* The transaction data a Build step queued.
Queued == pendingTxs'[StoreKey][Len(pendingTxs'[StoreKey])].data

\* The bytes argument of a multiSend(bytes) call: what follows selector,
\* offset and length, as long as the length word says.
PayloadOf(data) ==
    SubSeq(data, 69, 68 + data[66] * 65536 + data[67] * 256 + data[68])

Zeros(n) == [i \in 1..n |-> 0]

\* Where the k-th call starts in the payload.
RECURSIVE OffsetOf(_, _)
OffsetOf(list, k) ==
    IF k = 1 THEN 0 ELSE OffsetOf(list, k - 1) + 85 + Len(list[k - 1].data)

\* The payload holds, for each call in order, 1 byte operation, 20 bytes to,
\* 32 bytes value, 32 bytes data length and the data, and nothing else.
PackedInOrder(payload, list) ==
    /\ Len(payload) = OffsetOf(list, Len(list) + 1)
    /\ \A k \in 1..Len(list) :
         LET off == OffsetOf(list, k)
         IN  /\ payload[off + 1] = Call
             /\ SubSeq(payload, off + 2, off + 21) = AddressBytes(list[k].to)
             /\ SubSeq(payload, off + 22, off + 53) = Uint256(list[k].value)
             /\ SubSeq(payload, off + 54, off + 85) = Uint256(Len(list[k].data))
             /\ SubSeq(payload, off + 86, off + 85 + Len(list[k].data)) = list[k].data

\* 00 A 0 1 aa 00 B 5 1 bb, byte for byte.
TwoCallPayload ==
    <<0>> \o [i \in 1..20 |-> 17] \o Zeros(32) \o Zeros(31) \o <<1>> \o <<170>>
    \o <<0>> \o [i \in 1..20 |-> 34] \o Zeros(31) \o <<5>> \o Zeros(31) \o <<1>> \o <<187>>

C19_DraftNonceUnused ==
    [][Build =>
        \A i \in 1..Len(pendingTxs[StoreKey]) :
            pendingTxs[StoreKey][i].data.nonce # DraftNonce(pendingTxs, chainNonce)
      ]_vars

-----------------------------------------------------------------------------
(* The dashboard's import of a transaction file: the file is read, the     *)
(* import dialog shows what it holds, and its button imports it into the   *)
(* pending set of the dashboard's Safe and chain.                          *)

RequiredFields ==
    {"to", "value", "data", "operation", "safeTxGas", "baseGas", "gasPrice",
     "gasToken", "refundReceiver", "nonce"}

\* Wire transaction data with the given recipient, operation and nonce.
WireData(to, operation, nonce) ==
    [to |-> to, value |-> 0, data |-> Hex(0), operation |-> operation,
     safeTxGas |-> 0, baseGas |-> 0, gasPrice |-> 0,
     gasToken |-> Addr(0, "lower"), refundReceiver |-> Addr(0, "lower"),
     nonce |-> nonce]

WireSignature(signer, data) == [signer |-> signer, data |-> data, isContractSignature |-> FALSE]

\* The transaction of the import test: its one signature has the data
\* "0xmocksignature", which is no hex.
MockTxData ==
    [data |-> WireData(Addr(2, "checksum"), Call, 0),
     signatures |-> <<WireSignature(Addr(1, "lower"), BadDataStr)>>]

\* A well-formed wire transaction with the given nonce, signed by owner 1.
GoodTx(nonce) ==
    [data |-> WireData(Addr(2, "checksum"), Call, nonce),
     signatures |-> <<WireSignature(Addr(1, "lower"), Hex(1))>>]

\* The files chosen for import in the model.
ImportFiles ==
    { [tx |-> MockTxData],
      [tx |-> GoodTx(0)],
      [transactions |-> <<GoodTx(1)>>],
      [transactions |-> <<GoodTx(0), GoodTx(1)>>],
      [tx |-> [data |-> [f \in RequiredFields \ {"to"} |-> GoodTx(0).data[f]],
               signatures |-> <<>>]],
      [tx |-> [data |-> WireData(BadAddrStr, Call, 0), signatures |-> <<>>]],
      [tx |-> [data |-> WireData(Addr(2, "checksum"), 2, 0), signatures |-> <<>>]],
      [transactions |-> <<GoodTx(0), [data |-> WireData(Addr(2, "checksum"), 2, 1),
                                      signatures |-> <<>>]>>] }

\* Why decode refuses a wire transaction ("" when it does not): a required
\* field is absent, an address or byte field of the data is no hex, the
\* operation is neither Call nor DelegateCall.  The data of a signature is
\* taken as it comes: the import test's signature passes.
DecodeError(wireTx) ==
    IF ~(RequiredFields \subseteq DOMAIN wireTx.data) THEN "MalformedTransaction"
    ELSE IF \/ ~MatchesAddress(wireTx.data.to)
            \/ ~MatchesAddress(wireTx.data.gasToken)
            \/ ~MatchesAddress(wireTx.data.refundReceiver)
            \/ ~MatchesHex(wireTx.data.data)
         THEN "MalformedTransaction"
    ELSE IF wireTx.data.operation \notin {Call, DelegateCall} THEN "UnsupportedOperation"
    ELSE ""

\* The first error among the transactions of a file, "" when there is none.
FileError(file) ==
    LET list == decode(file)
        bad == {i \in 1..Len(list) : DecodeError(list[i]) # ""}
    IN  IF bad = {} THEN ""
        ELSE DecodeError(list[CHOOSE i \in bad : \A j \in bad : i <= j])

\* importTransaction for each transaction of a decoded file, in order.
RECURSIVE importAll(_, _, _, _)
importAll(store, key, list, result) ==
    IF list = <<>> THEN [store |-> store, result |-> result]
    ELSE LET done == importTransaction(store, key, Head(list))
         IN  importAll(done.store, key, Tail(list), done.result)

\* A file is chosen in the import input: it is decoded, and the import
\* dialog opens on its transactions unless decoding failed.
SelectImportFile(file) ==
    /\ importModal = Null
    /\ IF FileError(file) # ""
       THEN /\ importResult' = [case |-> FileError(file), count |-> 0]
            /\ UNCHANGED importModal
       ELSE /\ importModal' = [txs |-> decode(file)]
            /\ UNCHANGED importResult
    /\ UNCHANGED <<appVars, hashVars, buildVars, restVars, download, clipboard, peerTxs>>

\* The button of the import dialog: the transactions go to the pending set
\* of the Safe and chain, and the dialog closes.
ConfirmImport ==
    /\ importModal # Null
    /\ LET done == importAll(peerTxs, StoreKey, importModal.txs, Null)
       IN  /\ peerTxs' = done.store
           /\ importResult' = done.result
    /\ importModal' = Null
    /\ UNCHANGED <<appVars, hashVars, buildVars, restVars, download, clipboard>>

\* The import dialog is dismissed.
CancelImport ==
    /\ importModal # Null
    /\ importModal' = Null
    /\ UNCHANGED <<appVars, hashVars, buildVars, restVars, download, clipboard,
                   peerTxs, importResult>>

NextImport ==
    \/ \E file \in ImportFiles : SelectImportFile(file)
    \/ ConfirmImport
    \/ CancelImport

\* A pending transaction as the store holds it, signed by the given accounts.
PendingOf(wireTx, order) == [data |-> wireTx.data, signatures |-> SigMap(order, "checksum")]

\* The dashboard of the Safe, whose pending set holds nothing or one of the
\* files' transactions under other signatures; the pending sets of the Safe
\* on another chain and of another Safe hold nothing or a transaction.
InitImport ==
    /\ PageInit
    /\ connectedAddress = 1
    /\ NoSessions
    /\ NoBuild
    /\ NoRest
    /\ download = Null
    /\ clipboard = Null
    /\ importResult = Null
    /\ importModal = Null
    /\ \E here \in {<<>>, <<PendingOf(GoodTx(0), <<2>>)>>, <<PendingOf(GoodTx(1), <<1>>)>>},
          chain \in {<<>>, <<PendingOf(GoodTx(0), <<>>)>>},
          safe \in {<<>>, <<PendingOf(GoodTx(1), <<2>>)>>} :
          peerTxs = [k \in {StoreKey, <<SafeAddress, 100>>, <<"0xOtherSafe", ChainId>>} |->
                        IF k = StoreKey THEN here
                        ELSE IF k[1] = SafeAddress THEN chain ELSE safe]

SpecImport == InitImport /\ [][NextImport]_vars

\* The transactions a file holds, whichever of the two forms it has.
FileTxs(file) == IF "tx" \in DOMAIN file THEN <<file.tx>> ELSE file.transactions

\* The entries of a pending list that carry the data of the wire transaction.
EntriesOf(list, wireTx) == {i \in 1..Len(list) : list[i].data = wireTx.data}

\* In this step every transaction of the import dialog ends in the pending
\* set of the Safe and chain, once, with its data and the given relation
\* between the signers stored and the signers of the file.
ImportedWith(Same(_, _, _)) ==
    /\ \A i \in 1..Len(importModal.txs) :
          LET w == importModal.txs[i]
              hits == EntriesOf(peerTxs'[StoreKey], w)
          IN  /\ Cardinality(hits) = 1
              /\ \A j \in hits :
                    LET t == peerTxs'[StoreKey][j]
                    IN  /\ t.data.to = w.data.to
                        /\ Same(MapSigners(t.signatures), WireSigners(w.signatures),
                                EntriesOf(peerTxs[StoreKey], w) = {})
    /\ \A k \in DOMAIN peerTxs : k # StoreKey => peerTxs'[k] = peerTxs[k]

SignersOfFile(stored, inFile, new) == stored = inFile
SignersOfFileAndBefore(stored, inFile, new) ==
    /\ inFile \subseteq stored
    /\ new => stored = inFile

\* Both forms reach the import dialog whole: a well-formed file of either
\* form opens the dialog on every transaction of the file, in order.
BothFormsDecoded ==
    \A file \in ImportFiles :
        (SelectImportFile(file) /\ FileError(file) = "") => importModal'.txs = FileTxs(file)

ClaimedMalformed(wireTx) ==
    \/ ~(RequiredFields \subseteq DOMAIN wireTx.data)
    \/ ~MatchesAddress(wireTx.data.to)
    \/ ~MatchesAddress(wireTx.data.gasToken)
    \/ ~MatchesAddress(wireTx.data.refundReceiver)
    \/ ~MatchesHex(wireTx.data.data)
    \/ \E i \in 1..Len(wireTx.signatures) :
          \/ ~MatchesAddress(wireTx.signatures[i].signer)
          \/ ~MatchesHex(wireTx.signatures[i].data)

\* The error the claim gives a file: that of its first offending transaction.
ClaimedError(file) ==
    LET list == FileTxs(file)
        Err(w) == IF ClaimedMalformed(w) THEN "MalformedTransaction"
                  ELSE IF w.data.operation \notin {0, 1} THEN "UnsupportedOperation"
                  ELSE ""
        bad == {i \in 1..Len(list) : Err(list[i]) # ""}
    IN  IF bad = {} THEN "" ELSE Err(list[CHOOSE i \in bad : \A j \in bad : i <= j])

\* C22: importing a wire transaction with a required field absent, or with
\* an address or byte field (the data of a signature included) that is not
\* well-formed hex, fails with MalformedTransaction; an operation outside
\* {0, 1} fails with UnsupportedOperation; the pending set is unchanged: no
\* dialog opens through which the file could reach it.
C22_MalformedImportFails ==
    [][\A file \in ImportFiles :
          (SelectImportFile(file) /\ ClaimedError(file) # "")
              => /\ importResult' # Null
                 /\ importResult'.case = ClaimedError(file)
                 /\ importModal' = Null
                 /\ peerTxs' = peerTxs]_vars

\* The file of the import test went through: its transaction is pending
\* with the signature whose data is no hex.
C22_Witness ==
    \E i \in 1..Len(peerTxs[StoreKey]) :
        \E j \in 1..Len(peerTxs[StoreKey][i].signatures) :
            peerTxs[StoreKey][i].signatures[j].sig.data = BadDataStr

-----------------------------------------------------------------------------
(* The WalletConnect signing page: a dApp's request is shown with the      *)
(* hashes of its SafeMessage, and is signed, rejected or left.             *)

MaxCalls == 2

\* The request of a dApp as the WalletConnect provider hands it over.
WcRequest(request) ==
    [topic |-> "topic", id |-> 1, method |-> request.method, params |-> request.params]

\* The requests of the model: the signing requests, and personal_sign of a
\* plain text.
WcRequests ==
    {WcRequest(r) : r \in SignRequests}
        \cup {WcRequest([method |-> "personal_sign",
                         params |-> <<Str("hello"), Addr(1, "checksum")>>])}

WcSafeInfo == [version |-> VersionString(<<1, 4, 1>>)]

Alert(text, detail) == [kind |-> "alert", text |-> text, detail |-> detail]

\* const currentRequest = pendingRequest || requestFromStorage
currentRequest == IF pendingRequest # Null THEN pendingRequest ELSE requestFromStorage

\* What the request-loading effect makes of the provider's request and of
\* sessionStorage: the request read from storage, the method and the params.
LoadedRequest(pending, stored, prev) ==
    IF pending = Null
    THEN IF stored # Null
         THEN [fromStorage |-> stored, method |-> stored.method,
               signParams |-> [list |-> stored.params]]
         ELSE prev
    ELSE [prev EXCEPT !.method = pending.method, !.signParams = [list |-> pending.params]]

\* The SafeMessage effect on the loaded method and params.
LoadedHashes(loaded, prev) ==
    IF loaded.signParams = Null \/ loaded.method = "" THEN prev
    ELSE SafeMessageEffect([method |-> loaded.method, params |-> loaded.signParams.list],
                           WcSafeInfo, SafeAddress, ChainId, prev)

\* The signing page opens on a request of the provider, of sessionStorage,
\* of both, or on none.
InitWc ==
    /\ PageInit
    /\ connectedAddress = 1
    /\ NoSessions
    /\ NoWire
    /\ NoBuild
    /\ NoConnect
    /\ \E r \in WcRequests, pending \in BOOLEAN, stored \in BOOLEAN :
          /\ pendingRequest = IF pending THEN r ELSE Null
          /\ wcStorage = IF stored THEN r ELSE Null
    /\ LET loaded == LoadedRequest(pendingRequest, wcStorage,
                                   [fromStorage |-> Null, method |-> "", signParams |-> Null])
       IN  /\ requestFromStorage = loaded.fromStorage
           /\ wcMethod = loaded.method
           /\ wcSignParams = loaded.signParams
           /\ wcEip712Data = LoadedHashes(loaded, Null)
    /\ isProcessing = FALSE
    /\ wcSign = Null
    /\ wcReject = Null
    /\ wcBack = Null
    /\ approveCalls = <<>>
    /\ rejectCalls = <<>>
    /\ wcRoute = "sign"
    /\ wcAlert = Null

SigningMethods == {"personal_sign", "eth_sign", "eth_signTypedData", "eth_signTypedData_v4"}

\* The message handleSign hands to kit.createMessage, by method.
messageToSign(method, signParams) ==
    CASE method = "personal_sign" -> signParams[1]
      [] method = "eth_sign" -> signParams[2]
      [] OTHER -> signParams[2]

\* The page shows the request and its buttons.
RequestShown == wcRoute = "sign" /\ currentRequest # Null /\ wcSignParams # Null

\* The "Sign Message" button, handleSign up to its first await of the kit: a
\* method that is no signing method throws, which the handler's catch
\* reports.
WcHandleSign_NoDefault ==
    /\ RequestShown
    /\ ~isProcessing
    /\ Len(approveCalls) < MaxCalls
    /\ isProcessing' = TRUE
    /\ wcSign' = [stage |-> "signing", request |-> currentRequest,
                  message |-> wcSignParams.list[1]]
    /\ UNCHANGED wcAlert
    /\ UNCHANGED <<pendingRequest, requestFromStorage, wcSignParams, wcMethod,
                   wcEip712Data, wcReject, wcBack, approveCalls, rejectCalls,
                   wcRoute, wcStorage>>
    /\ UNCHANGED <<appVars, hashVars, wireVars, buildVars, connectVars>>

WcHandleSign ==
    /\ RequestShown
    /\ ~isProcessing
    /\ Len(approveCalls) < MaxCalls
    /\ IF wcMethod \in SigningMethods
       THEN /\ isProcessing' = TRUE
            /\ wcSign' = [stage |-> "signing", request |-> currentRequest,
                          message |-> messageToSign(wcMethod, wcSignParams.list)]
            /\ UNCHANGED wcAlert
       ELSE /\ wcAlert' = Alert("Failed to sign message: Unsupported signing method: ", wcMethod)
            /\ isProcessing' = FALSE
            /\ UNCHANGED wcSign
    /\ UNCHANGED <<pendingRequest, requestFromStorage, wcSignParams, wcMethod,
                   wcEip712Data, wcReject, wcBack, approveCalls, rejectCalls,
                   wcRoute, wcStorage>>
    /\ UNCHANGED <<appVars, hashVars, wireVars, buildVars, connectVars>>

\* A call of the provider's approveRequest or rejectRequest.
Response(request, body) == [topic |-> request.topic, id |-> request.id, body |-> body]

\* kit.createMessage and kit.signMessage return: with the owner's signature,
\* which is sent with approveRequest; with the wallet's rejection, which is
\* sent with rejectRequest; or with another error, which is reported.
WcSignReturn(outcome) ==
    /\ wcSign # Null
    /\ wcSign.stage = "signing"
    /\ CASE outcome = "signed" ->
              /\ approveCalls' = Append(approveCalls,
                    Response(wcSign.request, <<"signature", connectedAddress, wcSign.message>>))
              /\ wcSign' = [wcSign EXCEPT !.stage = "approving"]
              /\ UNCHANGED <<rejectCalls, isProcessing, wcAlert>>
         [] outcome = "rejected" ->
              /\ rejectCalls' = Append(rejectCalls,
                    Response(wcSign.request, "User rejected the signing request"))
              /\ wcSign' = [wcSign EXCEPT !.stage = "rejecting"]
              /\ UNCHANGED <<approveCalls, isProcessing, wcAlert>>
         [] OTHER ->
              /\ wcAlert' = Alert("Failed to sign message", "")
              /\ isProcessing' = FALSE
              /\ wcSign' = Null
              /\ UNCHANGED <<approveCalls, rejectCalls>>
    /\ UNCHANGED <<pendingRequest, requestFromStorage, wcSignParams, wcMethod,
                   wcEip712Data, wcReject, wcBack, wcRoute, wcStorage>>
    /\ UNCHANGED <<appVars, hashVars, wireVars, buildVars, connectVars>>

\* approveRequest returns: the stored request is removed and the page is
\* left; or it throws, which is reported.
WcApproveReturn(ok) ==
    /\ wcSign # Null
    /\ wcSign.stage = "approving"
    /\ wcSign' = Null
    /\ IF ok
       THEN /\ wcStorage' = Null
            /\ wcAlert' = Alert("Message signed successfully!", "")
            /\ wcRoute' = "safe"
            /\ UNCHANGED isProcessing
       ELSE /\ wcAlert' = Alert("Failed to sign message", "")
            /\ isProcessing' = FALSE
            /\ UNCHANGED <<wcStorage, wcRoute>>
    /\ UNCHANGED <<pendingRequest, requestFromStorage, wcSignParams, wcMethod,
                   wcEip712Data, wcReject, wcBack, approveCalls, rejectCalls>>
    /\ UNCHANGED <<appVars, hashVars, wireVars, buildVars, connectVars>>

\* rejectRequest of handleSign's catch returns or throws: the stored and the
\* pending request are cleared and the page is left.
WcSignRejectReturn ==
    /\ wcSign # Null
    /\ wcSign.stage = "rejecting"
    /\ wcSign' = Null
    /\ wcStorage' = Null
    /\ pendingRequest' = Null
    /\ wcRoute' = "safe"
    /\ UNCHANGED <<requestFromStorage, wcSignParams, wcMethod, isProcessing,
                   wcEip712Data, wcReject, wcBack, approveCalls, rejectCalls, wcAlert>>
    /\ UNCHANGED <<appVars, hashVars, wireVars, buildVars, connectVars>>

\* The "Reject" button, handleReject up to its await of rejectRequest.
WcHandleReject ==
    /\ RequestShown
    /\ ~isProcessing
    /\ Len(rejectCalls) < MaxCalls
    /\ isProcessing' = TRUE
    /\ rejectCalls' = Append(rejectCalls, Response(currentRequest, "User rejected the request"))
    /\ wcReject' = [request |-> currentRequest]
    /\ UNCHANGED <<pendingRequest, requestFromStorage, wcSignParams, wcMethod,
                   wcEip712Data, wcSign, wcBack, approveCalls, wcRoute, wcAlert, wcStorage>>
    /\ UNCHANGED <<appVars, hashVars, wireVars, buildVars, connectVars>>

\* The state of the page after clearPendingRequest while it is shown: the
\* request-loading effect runs again on the cleared request.
Reloaded ==
    LoadedRequest(Null, wcStorage,
                  [fromStorage |-> requestFromStorage, method |-> wcMethod,
                   signParams |-> wcSignParams])

\* handleReject's rejectRequest returns, and the page is left; or throws,
\* which is reported.  The pending request is cleared either way.
WcRejectReturn(ok) ==
    /\ wcReject # Null
    /\ wcReject' = Null
    /\ pendingRequest' = Null
    /\ IF ok
       THEN /\ wcRoute' = "safe"
            /\ UNCHANGED <<requestFromStorage, wcMethod, wcSignParams, wcEip712Data,
                           isProcessing, wcAlert>>
       ELSE /\ wcAlert' = Alert("Failed to reject signing", "")
            /\ isProcessing' = FALSE
            /\ IF wcRoute = "sign" /\ pendingRequest # Null
               THEN /\ requestFromStorage' = Reloaded.fromStorage
                    /\ wcMethod' = Reloaded.method
                    /\ wcSignParams' = Reloaded.signParams
                    /\ wcEip712Data' = LoadedHashes(Reloaded, wcEip712Data)
               ELSE UNCHANGED <<requestFromStorage, wcMethod, wcSignParams, wcEip712Data>>
            /\ UNCHANGED wcRoute
    /\ UNCHANGED <<wcSign, wcBack, approveCalls, rejectCalls, wcStorage>>
    /\ UNCHANGED <<appVars, hashVars, wireVars, buildVars, connectVars>>

\* The "Back to Safe" button, which is never disabled: with a request shown
\* it calls rejectRequest and waits; on the empty page it leaves.
WcBackToSafe ==
    /\ wcRoute = "sign"
    /\ wcBack = Null
    /\ IF RequestShown
       THEN /\ Len(rejectCalls) < MaxCalls
            /\ rejectCalls' = Append(rejectCalls,
                                     Response(currentRequest, "User cancelled the request"))
            /\ wcBack' = [request |-> currentRequest]
            /\ UNCHANGED wcRoute
       ELSE /\ wcRoute' = "safe"
            /\ UNCHANGED <<rejectCalls, wcBack>>
    /\ UNCHANGED <<pendingRequest, requestFromStorage, wcSignParams, wcMethod, isProcessing,
                   wcEip712Data, wcSign, wcReject, approveCalls, wcAlert, wcStorage>>
    /\ UNCHANGED <<appVars, hashVars, wireVars, buildVars, connectVars>>

\* The button's rejectRequest returns or throws: the pending request is
\* cleared and the page is left.
WcBackReturn ==
    /\ wcBack # Null
    /\ wcBack' = Null
    /\ pendingRequest' = Null
    /\ wcRoute' = "safe"
    /\ UNCHANGED <<requestFromStorage, wcSignParams, wcMethod, isProcessing,
                   wcEip712Data, wcSign, wcReject, approveCalls, rejectCalls,
                   wcAlert, wcStorage>>
    /\ UNCHANGED <<appVars, hashVars, wireVars, buildVars, connectVars>>

NextWc ==
    \/ WcHandleSign
    \/ \E outcome \in {"signed", "rejected", "failed"} : WcSignReturn(outcome)
    \/ \E ok \in BOOLEAN : WcApproveReturn(ok)
    \/ WcSignRejectReturn
    \/ WcHandleReject
    \/ \E ok \in BOOLEAN : WcRejectReturn(ok)
    \/ WcBackToSafe
    \/ WcBackReturn

SpecWc == InitWc /\ [][NextWc]_vars

\* Whether a JavaScript string is "" (falsy), and whether it starts with "0x".
IsEmptyString(s) == s.kind = "empty" \/ (s.kind = "str" /\ s.v = "")
StartsWith0x(s) == s.kind \in {"addr", "hex"} \/ (s.kind = "str" /\ s.v \in {"0x", "0x68656c6c6f"})

\* messageToDisplay: the param the page shows as the message, and whether it
\* shows the text its hex digits decode to rather than the string itself.
messageToDisplay(method, signParams) ==
    IF method \in {"personal_sign", "eth_sign"}
    THEN LET message == IF ~IsEmptyString(signParams[1]) THEN signParams[1] ELSE signParams[2]
         IN  [shown |-> message, decoded |-> StartsWith0x(message)]
    ELSE IF method \in {"eth_signTypedData", "eth_signTypedData_v4"}
         THEN [shown |-> signParams[2], decoded |-> FALSE]
         ELSE [shown |-> Null, decoded |-> FALSE]

\* The SafeMessage value the claim gives a request: the EIP-191 hash of
\* params[0] for personal_sign and of params[1] for eth_sign, the EIP-712
\* hash of the typed data in params[1] otherwise.
WrappedValue(method, p) ==
    CASE method = "personal_sign" -> <<"eip191", p[1]>>
      [] method = "eth_sign" -> <<"eip191", p[2]>>
      [] OTHER -> <<"0x1901", <<"hashDomain", p[2].domain>>,
                    <<"hashStruct", p[2].types, p[2].message>>>>

\* C23: the value wrapped in the SafeMessage is the EIP-191 hash of the
\* message for personal_sign (params[0]) and eth_sign (params[1]), and the
\* EIP-712 hash of the typed data for eth_signTypedData and
\* eth_signTypedData_v4 (params[1]); the raw message is never wrapped
\* unhashed, and a shown signing request with its message has the hashes.
C23_SafeMessageWrapsHash ==
    /\ wcEip712Data # Null =>
          /\ wcMethod \in SigningMethods
          /\ wcEip712Data.safeMessage = WrappedValue(wcMethod, wcSignParams.list)
          /\ wcEip712Data.safeMessage[1] \in {"eip191", "0x1901"}
          /\ wcEip712Data.messageHash =
                <<"hashStruct", "SafeMessage", [message |-> wcEip712Data.safeMessage]>>
    /\ (RequestShown /\ HasSafeMessage(wcMethod, wcSignParams.list)) => wcEip712Data # Null

\* An eth_sign request was signed and approved under its SafeMessage hashes.
C23_Witness ==
    /\ wcMethod = "eth_sign"
    /\ wcEip712Data # Null
    /\ wcEip712Data.safeMessage = <<"eip191", Str("0x68656c6c6f")>>
    /\ approveCalls # <<>>

UnsupportedAlert == Alert("Failed to sign message: Unsupported signing method: ", wcMethod)

\* C24: a WalletConnect request whose method is not one of the four signing
\* methods is rejected explicitly: there are no SafeMessage hash data, no
\* signature is created, approveRequest is never called, and Sign reports
\* the unsupported method.
C24_UnsupportedMethodRejected ==
    /\ [](wcMethod \notin SigningMethods =>
            /\ wcEip712Data = Null
            /\ wcSign = Null
            /\ approveCalls = <<>>)
    /\ [][(WcHandleSign /\ wcMethod \notin SigningMethods) =>
            /\ wcAlert' = UnsupportedAlert
            /\ ~isProcessing'
            /\ approveCalls' = <<>>]_vars

\* Sign was pressed on an eth_sendTransaction request.
C24_Witness ==
    /\ wcMethod = "eth_sendTransaction"
    /\ RequestShown
    /\ wcAlert = UnsupportedAlert

\* C28: for every supported method, the message shown to the user is the
\* message hashed into the SafeMessage and passed to signing.
C28_ShownMessageIsSigned ==
    (RequestShown /\ HasSafeMessage(wcMethod, wcSignParams.list)) =>
        LET shown == messageToDisplay(wcMethod, wcSignParams.list).shown
        IN  /\ shown = messageToSign(wcMethod, wcSignParams.list)
            /\ wcEip712Data # Null
            /\ wcEip712Data.safeMessage = SafeMessageOf(wcMethod, [i \in 1..2 |-> shown])

\* An eth_sign request is shown: the page displays the address of params[0]
\* while the message of params[1] is hashed and signed.
C28_Witness ==
    /\ RequestShown
    /\ wcMethod = "eth_sign"
    /\ messageToDisplay(wcMethod, wcSignParams.list).shown = Addr(1, "checksum")
    /\ wcSign # Null
    /\ wcSign.message = Str("0x68656c6c6f")

\* C29: every WalletConnect request receives at most one response:
\* approveRequest and rejectRequest are never both called and neither is
\* called twice, under any interleaving of Sign, Reject and Back to Safe
\* with an in-flight signing call.
C29_AtMostOneResponse ==
    Len(approveCalls) + Len(rejectCalls) <= 1

\* Back to Safe was pressed while the signing call was in flight, and the
\* signature arrived after it: the request was both rejected and approved.
C29_Witness ==
    /\ Len(approveCalls) = 1
    /\ Len(rejectCalls) = 1
    /\ rejectCalls[1].body = "User cancelled the request"
    /\ rejectCalls[1].topic = approveCalls[1].topic
    /\ rejectCalls[1].id = approveCalls[1].id

-----------------------------------------------------------------------------
(* Signing once, and the manual addition of a signature.                   *)

\* The signatures persisted for the page's transaction: those of the entry
\* of its hash in the pending set of its Safe and chain.
PersistedSigs(store) ==
    LET hit == {i \in 1..Len(store[StoreKey]) : getTransactionHash(store[StoreKey][i]) = txHash}
    IN  IF hit = {} THEN <<>> ELSE store[StoreKey][CHOOSE i \in hit : TRUE].signatures

\* C26: adding a signature is atomic with respect to the in-memory
\* transaction and the persisted pending set: after every manual
\* add-signature attempt, successful or failed, the signature set shown
\* equals the persisted one, and a failed attempt leaves both unchanged.
C26_AddSignatureAtomic ==
    [][\A input \in ManualInputs, persisted \in BOOLEAN :
          HandleAddSignature(input[1], input[2], persisted) =>
              /\ Sigs' = PersistedSigs(pendingTxs')
              /\ (toast'.type = "error") =>
                    /\ Sigs' = Sigs
                    /\ pendingTxs' = pendingTxs]_vars

\* An attempt failed at saveTransaction: the page's transaction carries the
\* signature, the pending set does not.
C26_Witness ==
    /\ TxViewShown
    /\ toast = Toast("error", "Failed to add signature")
    /\ Sigs # PersistedSigs(pendingTxs)

\* The transaction page with its dialog for adding a signature, whose
\* saveTransaction stores or throws.
NextAddSig ==
    \/ LoadSafeInfo
    \/ FetchTxDone
    \/ ClearToast
    \/ OpenAddSigModal
    \/ CancelAddSig
    \/ \E input \in ManualInputs, persisted \in BOOLEAN :
          HandleAddSignature(input[1], input[2], persisted)

SpecAddSig == Init /\ [][NextAddSig]_vars

\* The page's transaction carries a signature whose signer is the account,
\* in whatever letter case the signer's address is stored.
SignatureOf(a) ==
    \E i \in 1..Len(Sigs) : Sigs[i].sig.signer.kind = "addr" /\ Sigs[i].sig.signer.id = a

\* C25: an owner who already has a signature on the transaction cannot
\* start signing again: hasSigned compares case-insensitively, so that for
\* every letter-case form of the connected address and of the stored signer
\* the Sign button is disabled ("Already Signed") and handleSign cannot
\* start.
C25_NoSecondSignature ==
    TxViewShown =>
        /\ \A form \in Forms :
              hasSigned(safeTx, Addr(connectedAddress, form)) <=> SignatureOf(connectedAddress)
        /\ SignatureOf(connectedAddress) =>
              /\ hasSignedThisTx
              /\ SignBtnDisabled
              /\ ~ENABLED HandleSign

\* The connected owner's signature is stored under the lower-case form of
\* the address, the wallet reports the checksum form, no signing is in
\* flight: the button is disabled because the owner has signed.
C25_Witness ==
    /\ TxViewShown
    /\ isOwner
    /\ ~signing
    /\ \E i \in 1..Len(Sigs) : Sigs[i].sig.signer = Addr(connectedAddress, "lower")
    /\ hasSignedThisTx
    /\ SignBtnDisabled

-----------------------------------------------------------------------------
(* The form that adds an existing Safe to the address book.                *)

\* An ENS name that resolves, if at all, to the address of account id.
EnsName(id) == [kind |-> "ens", id |-> id, form |-> "lower"]

\* What is typed as Safe address or ENS name in the model.
ConnectInputs == {EmptyStr, BadAddrStr, Addr(1, "lower"), Addr(1, "checksum"), EnsName(1)}

\* The networks of the select.
ConnectChains == {"31337", "1"}

\* useEnsAddress: isEnsName, isLoading and the resolved address.
isEnsName == addressInput.kind = "ens"
isResolvingEns == isEnsName /\ ensResolution # Null /\ ensResolution.isLoading
resolvedAddress == IF ensResolution # Null THEN ensResolution.address ELSE Null

\* const safeAddress = isEnsName ? resolvedAddress : addressInput
safeAddress == IF isEnsName THEN resolvedAddress ELSE addressInput

ConnectError(text) == [kind |-> "error", text |-> text]

\* addSafe(chainId, safeAddress, name): the Safe is entered in the address
\* book of the network under its address as given.
addSafe(book, chain, address) == book \cup {[chain |-> chain, address |-> address]}

\* addressBook[selectedChain] && addressBook[selectedChain][safeAddress]
InAddressBook(book, chain, address) == [chain |-> chain, address |-> address] \in book

\* The form is opened from the accounts page.
OpenConnect ==
    /\ connectRoute = "accounts"
    /\ connectCall = Null
    /\ connectRoute' = "connect"
    /\ addressInput' = EmptyStr
    /\ ensResolution' = Null
    /\ selectedChain' = ""
    /\ connectError' = Null
    /\ connectLoading' = FALSE
    /\ UNCHANGED <<addressBook, connectCall>>
    /\ UNCHANGED <<appVars, hashVars, wireVars, buildVars, wcVars>>

\* The address input changes; an ENS name starts to resolve.
SetAddressInput(text) ==
    /\ connectRoute = "connect"
    /\ ~connectLoading
    /\ text # addressInput
    /\ addressInput' = text
    /\ ensResolution' = IF text.kind = "ens" THEN [isLoading |-> TRUE, address |-> Null]
                        ELSE Null
    /\ UNCHANGED <<selectedChain, connectError, connectLoading, addressBook,
                   connectCall, connectRoute>>
    /\ UNCHANGED <<appVars, hashVars, wireVars, buildVars, wcVars>>

\* The resolution of the ENS name ends, with an address or without.
EnsResolved(found) ==
    /\ connectRoute = "connect"
    /\ isResolvingEns
    /\ ensResolution' = [isLoading |-> FALSE,
                         address |-> IF found THEN Addr(addressInput.id, "checksum") ELSE Null]
    /\ UNCHANGED <<addressInput, selectedChain, connectError, connectLoading, addressBook,
                   connectCall, connectRoute>>
    /\ UNCHANGED <<appVars, hashVars, wireVars, buildVars, wcVars>>

\* A network is chosen in the select.
SelectChain(chain) ==
    /\ connectRoute = "connect"
    /\ ~connectLoading
    /\ chain # selectedChain
    /\ selectedChain' = chain
    /\ UNCHANGED <<addressInput, ensResolution, connectError, connectLoading, addressBook,
                   connectCall, connectRoute>>
    /\ UNCHANGED <<appVars, hashVars, wireVars, buildVars, wcVars>>

\* Why handleAddSafe returns before connectNewSafe ("" when it does not).
AddSafeError ==
    IF isResolvingEns THEN "Still resolving ENS name..."
    ELSE IF isEnsName /\ resolvedAddress = Null THEN "Could not resolve ENS name to an address"
    ELSE IF safeAddress = EmptyStr \/ ~MatchesAddress(safeAddress) THEN "Invalid Safe address"
    ELSE IF selectedChain = "" THEN "Please select a network"
    ELSE IF InAddressBook(addressBook, selectedChain, safeAddress)
         THEN "This Safe address is already registered on the selected network."
    ELSE ""

\* Click on "Add Safe": handleAddSafe up to its return or to its await of
\* connectNewSafe.
HandleAddSafe ==
    /\ connectRoute = "connect"
    /\ ~connectLoading
    /\ IF AddSafeError # ""
       THEN /\ connectError' = ConnectError(AddSafeError)
            /\ connectLoading' = FALSE
            /\ UNCHANGED connectCall
       ELSE /\ connectError' = Null
            /\ connectLoading' = TRUE
            /\ connectCall' = [safeAddress |-> safeAddress, chain |-> selectedChain]
    /\ UNCHANGED <<addressInput, ensResolution, selectedChain, addressBook, connectRoute>>
    /\ UNCHANGED <<appVars, hashVars, wireVars, buildVars, wcVars>>

\* What connectNewSafe ends with: the Safe's data, nothing, a result with an
\* error, an exception.
ConnectOutcomes == {"meta", "null", "error", "throw"}

\* The rest of handleAddSafe.
ConnectReturn(outcome) ==
    /\ connectCall # Null
    /\ connectCall' = Null
    /\ connectLoading' = FALSE
    /\ IF outcome = "meta"
       THEN /\ addressBook' = addSafe(addressBook, connectCall.chain, connectCall.safeAddress)
            /\ connectRoute' = "accounts"
            /\ UNCHANGED connectError
       ELSE /\ connectError' = ConnectError(IF outcome = "error" THEN "safeMeta.error"
                                            ELSE "Failed to connect or add Safe")
            /\ UNCHANGED <<addressBook, connectRoute>>
    /\ UNCHANGED <<addressInput, ensResolution, selectedChain>>
    /\ UNCHANGED <<appVars, hashVars, wireVars, buildVars, wcVars>>

NextConnect ==
    \/ OpenConnect
    \/ \E text \in ConnectInputs : SetAddressInput(text)
    \/ \E found \in BOOLEAN : EnsResolved(found)
    \/ \E chain \in ConnectChains : SelectChain(chain)
    \/ HandleAddSafe
    \/ \E outcome \in ConnectOutcomes : ConnectReturn(outcome)

InitConnect ==
    /\ PageInit
    /\ connectedAddress = 1
    /\ NoSessions
    /\ NoWire
    /\ NoBuild
    /\ NoWc
    /\ NoConnect

SpecConnect == InitConnect /\ [][NextConnect]_vars

\* The Safe of the address is entered in the address book of the network,
\* in whatever letter case.
Registered(book, chain, address) ==
    \E e \in book : e.chain = chain /\ e.address.kind = "addr" /\ e.address.id = address.id

\* handleAddSafe has finished in this step.
AddSafeFinished ==
    \/ HandleAddSafe /\ connectCall' = Null
    \/ \E outcome \in ConnectOutcomes : ConnectReturn(outcome)

\* The conditions under which the claim lets handleAddSafe add the Safe it
\* was called for, registered meaning the given notion of an entry.
MayAdd(IsRegistered(_, _, _)) ==
    /\ connectCall # Null
    /\ isEnsName => (~isResolvingEns /\ resolvedAddress # Null)
    /\ MatchesAddress(connectCall.safeAddress)
    /\ connectCall.safeAddress = safeAddress
    /\ connectCall.chain \in ConnectChains
    /\ ~IsRegistered(addressBook, connectCall.chain, connectCall.safeAddress)
    /\ ConnectReturn("meta")

AddSafeOnlyIf(IsRegistered(_, _, _)) ==
    /\ addressBook' # addressBook =>
          /\ MayAdd(IsRegistered)
          /\ connectRoute' = "accounts"
          /\ addressBook' = addressBook \cup
                {[chain |-> connectCall.chain, address |-> connectCall.safeAddress]}
    /\ AddSafeFinished => ~connectLoading'
    /\ (AddSafeFinished /\ ~ConnectReturn("meta")) =>
          /\ addressBook' = addressBook
          /\ connectError' # Null

\* C27: handleAddSafe adds a Safe to the address book, and navigates to the
\* accounts page, only if ENS resolution is finished and successful when an
\* ENS name was entered, the address matches 0x and 40 hex digits, a
\* network is selected, the address is not already registered on that
\* network, and connectNewSafe returned a result without error; on every
\* other path the address book is unchanged and an error message is set,
\* and on every path loading is false when the handler has finished.
C27_AddSafeOnlyIf == [][AddSafeOnlyIf(Registered)]_vars

\* The same with registered meaning an entry under the very string entered.
AddSafeOnlyIfSameString == [][AddSafeOnlyIf(InAddressBook)]_vars

\* The Safe is in the address book of one network twice, under the
\* lower-case and under the checksum form of its address.
C27_Witness ==
    \E chain \in ConnectChains :
        /\ [chain |-> chain, address |-> Addr(1, "lower")] \in addressBook
        /\ [chain |-> chain, address |-> Addr(1, "checksum")] \in addressBook

-----------------------------------------------------------------------------
(* The end of a broadcast: the modal reports the executed transaction, and *)
(* its "Back to Safe" removes it from the pending transactions.            *)

\* Pending transactions next to the page's: one of another nonce, one
\* competing at the same nonce.
OtherNonceTx == [data |-> [BuiltTxData EXCEPT !.nonce = BuiltTxData.nonce + 1], signatures |-> <<>>]
CompetingTx == [data |-> [BuiltTxData EXCEPT !.value = 1], signatures |-> <<>>]

\* The page after the broadcast of its transaction succeeded: the owners up
\* to the threshold have signed, the modal shows the hash.  The Safe has
\* other transactions pending or none, on this chain and on another, and so
\* has another Safe.
InitRemove ==
    /\ route = "tx"
    /\ loading = FALSE
    /\ signing = FALSE
    /\ broadcasting = FALSE
    /\ showModal = TRUE
    /\ broadcastHash = ResultHash([txHash |-> txHash])
    /\ broadcastError = Null
    /\ toast \in {Null, Toast("success", "Broadcast successful!")}
    /\ showAddSigModal = FALSE
    /\ signCall = Null
    /\ bcastCall = Null
    /\ connectedAddress \in Accounts
    /\ \E t \in 1..NumOwners :
          /\ safeInfo = [owners |-> {Addr(i, "checksum") : i \in Owners}, threshold |-> t]
          /\ \E order \in SignerOrders :
                /\ Len(order) = t
                /\ \A i \in 1..t : order[i] \in Owners
                /\ safeTx = [data |-> BuiltTxData, signatures |-> SigMap(order, "checksum"),
                             inst |-> TRUE]
    /\ \E here \in {<<>>, <<OtherNonceTx>>, <<CompetingTx>>, <<OtherNonceTx, CompetingTx>>},
          chain \in {<<>>, <<OtherNonceTx>>},
          safe \in {<<>>, <<CompetingTx>>} :
          pendingTxs = [k \in {StoreKey, <<SafeAddress, 1>>, <<"0xOtherSafe", ChainId>>} |->
                           IF k = StoreKey THEN <<Stored(safeTx)>> \o here
                           ELSE IF k[1] = SafeAddress THEN chain ELSE safe]
    /\ NoSessions
    /\ NoWire
    /\ NoBuild
    /\ NoRest

NextRemove ==
    \/ ModalSuccess
    \/ ModalClose
    \/ ClearToast

SpecRemove == InitRemove /\ [][NextRemove]_vars

\* A pending list without the transactions of the page's hash.
WithoutTx(list) == SelectSeq(list, LAMBDA t : getTransactionHash(t) # txHash)

\* C30: removing a transaction after its successful broadcast removes only
\* that transaction: every other pending transaction of the same Safe on
\* the same chain, of another nonce or competing at the same nonce, and
\* every pending set of another (safe, chain) pair is left unchanged.
C30_RemovesOnlyBroadcastTx ==
    [][ModalSuccess =>
          \A k \in DOMAIN pendingTxs :
              pendingTxs'[k] = IF k = StoreKey THEN WithoutTx(pendingTxs[k]) ELSE pendingTxs[k]]_vars

====
